---- MODULE Spec2Model ----
(***************************************************************************)
(* Shard-local inference engine and continuation codec of                  *)
(* exo/inference/tinygrad/inference.py                                     *)
(* (TinygradDynamicShardInferenceEngine).                                  *)
(*                                                                         *)
(* Strings are sequences of one-character strings, so that json.dumps and  *)
(* json.loads are conversions between integers and text.                   *)
(***************************************************************************)
EXTENDS Integers, Sequences, FiniteSets, TLC

(***************************************************************************)
(* Bounds of the model.                                                    *)
(***************************************************************************)
\* largest integer a caller-supplied continuation blob carries
MaxInt == 10
\* largest number of tokens tokenizer.encode returns for a prompt
MaxToks == 2
\* largest count kept of the intermediate stages a state was passed through
MaxHops == 2

(***************************************************************************)
(* Text: json.dumps / json.loads on the flat continuation object.          *)
(***************************************************************************)
Digits == <<"0", "1", "2", "3", "4", "5", "6", "7", "8", "9">>

DigitChars == {Digits[i] : i \in 1..10}

DigitVal(c) == (CHOOSE i \in 1..10 : Digits[i] = c) - 1

Whitespace == {" ", "\t", "\n", "\r"}

KeyStartPos == <<"s", "t", "a", "r", "t", "_", "p", "o", "s">>

KeyNCapturedToks ==
  <<"n", "_", "c", "a", "p", "t", "u", "r", "e", "d", "_", "t", "o", "k", "s">>

\* Mutant of NatChars: the digits come out least significant first.
RECURSIVE NatCharsReversed(_)
NatCharsReversed(n) ==
  IF n < 10 THEN <<Digits[n + 1]>>
  ELSE <<Digits[(n % 10) + 1]>> \o NatCharsReversed(n \div 10)

\* str(n) for a non-negative Python int: decimal digits, most significant first.
RECURSIVE NatChars(_)
NatChars(n) ==
  IF n < 10 THEN <<Digits[n + 1]>>
  ELSE NatChars(n \div 10) \o <<Digits[(n % 10) + 1]>>

\* json.dumps of a Python int.
IntChars(n) == IF n < 0 THEN <<"-">> \o NatChars(0 - n) ELSE NatChars(n)

\* json.dumps of a str without characters that need escaping.
QuotedChars(k) == <<"\"">> \o k \o <<"\"">>

\* json.dumps({"start_pos": sp, "n_captured_toks": nc}) with the default
\* separators (", " and ": ") and the dict's insertion order.
JsonDumps(sp, nc) ==
  <<"{">> \o QuotedChars(KeyStartPos) \o <<":", " ">> \o IntChars(sp)
    \o <<",", " ">> \o QuotedChars(KeyNCapturedToks) \o <<":", " ">> \o IntChars(nc)
    \o <<"}">>

\* Index of the first non-whitespace character of s at or after i.
RECURSIVE SkipWs(_, _)
SkipWs(s, i) ==
  IF i <= Len(s) /\ s[i] \in Whitespace THEN SkipWs(s, i + 1) ELSE i

\* Index of the first non-digit character of s at or after i.
RECURSIVE DigitsEnd(_, _)
DigitsEnd(s, i) ==
  IF i <= Len(s) /\ s[i] \in DigitChars THEN DigitsEnd(s, i + 1) ELSE i

\* Value of the decimal digits s[i..j-1], acc being the value of those before i.
RECURSIVE DigitsValue(_, _, _, _)
DigitsValue(s, i, j, acc) ==
  IF i >= j THEN acc ELSE DigitsValue(s, i + 1, j, acc * 10 + DigitVal(s[i]))

\* The JSON integer s[b..e-1] (after the sign): "0", or digits without a
\* leading zero.  [ok, val, next].
IntAt(s, neg, b, e) ==
  IF e = b \/ (e > b + 1 /\ s[b] = "0")
    THEN [ok |-> FALSE, val |-> 0, next |-> b]
    ELSE [ok |-> TRUE,
          val |-> IF neg THEN 0 - DigitsValue(s, b, e, 0) ELSE DigitsValue(s, b, e, 0),
          next |-> e]

\* A JSON integer at s[i]: an optional "-", then the digits.
ParseInt(s, i) ==
  IF i <= Len(s) /\ s[i] = "-" THEN IntAt(s, TRUE, i + 1, DigitsEnd(s, i + 1))
  ELSE IntAt(s, FALSE, i, DigitsEnd(s, i))

\* Index of the first double quote of s at or after i (Len(s) + 1 if none).
RECURSIVE QuoteAt(_, _)
QuoteAt(s, i) ==
  IF i <= Len(s) /\ s[i] # "\"" THEN QuoteAt(s, i + 1) ELSE i

\* The JSON string that opens at s[i] and closes at s[e].
StringTo(s, i, e) ==
  IF e > Len(s) THEN [ok |-> FALSE, val |-> <<>>, next |-> i]
  ELSE [ok |-> TRUE, val |-> SubSeq(s, i + 1, e - 1), next |-> e + 1]

\* A JSON string at s[i].  [ok, val, next].
ParseString(s, i) ==
  IF i > Len(s) \/ s[i] # "\"" THEN [ok |-> FALSE, val |-> <<>>, next |-> i]
  ELSE StringTo(s, i, QuoteAt(s, i + 1))

EmptyDict == [k \in {} |-> 0]

DictPut(d, k, v) == [x \in (DOMAIN d) \cup {k} |-> IF x = k THEN v ELSE d[x]]

\* dict.get(k, default)
DictGet(d, k, default) == IF k \in DOMAIN d THEN d[k] ELSE default

JsonError == [kind |-> "error", dict |-> EmptyDict]

\* The members of a JSON object from s[i] (just before a key), d being the
\* members read so far; a repeated key keeps its last value.
RECURSIVE ParseMembers(_, _, _)
\* ... after the member's value v: "," and more members, or "}" and the end.
MemberEnd(s, d, e) ==
  IF e > Len(s) THEN JsonError
  ELSE IF s[e] = "," THEN ParseMembers(s, e + 1, d)
  ELSE IF s[e] = "}" /\ SkipWs(s, e + 1) = Len(s) + 1 THEN [kind |-> "dict", dict |-> d]
  ELSE JsonError

\* ... the value v of key k.
MemberValue(s, d, k, v) ==
  IF ~v.ok THEN JsonError ELSE MemberEnd(s, DictPut(d, k.val, v.val), SkipWs(s, v.next))

\* ... the colon at s[c] after key k.
MemberColon(s, d, k, c) ==
  IF c > Len(s) \/ s[c] # ":" THEN JsonError
  ELSE MemberValue(s, d, k, ParseInt(s, SkipWs(s, c + 1)))

\* ... the key k.
MemberKey(s, d, k) ==
  IF ~k.ok THEN JsonError ELSE MemberColon(s, d, k, SkipWs(s, k.next))

ParseMembers(s, i, d) == MemberKey(s, d, ParseString(s, SkipWs(s, i)))

\* The JSON object that opens at s[b], m being the first index after "{" that
\* holds no whitespace.
ObjectAt(s, b, m) ==
  IF m <= Len(s) /\ s[m] = "}"
    THEN IF SkipWs(s, m + 1) = Len(s) + 1
           THEN [kind |-> "dict", dict |-> EmptyDict]
           ELSE JsonError
    ELSE ParseMembers(s, b + 1, EmptyDict)

\* A top-level JSON integer v: a value without .get.
TopLevelInt(s, v) ==
  IF v.ok /\ SkipWs(s, v.next) = Len(s) + 1 THEN [kind |-> "int", dict |-> EmptyDict]
  ELSE JsonError

\* The JSON value at s[b], the first index that holds no whitespace.
ValueAt(s, b) ==
  IF b > Len(s) THEN JsonError
  ELSE IF s[b] = "{" THEN ObjectAt(s, b, SkipWs(s, b + 1))
  ELSE TopLevelInt(s, ParseInt(s, b))

\* json.loads(s) on text made of objects with integer members, integers and
\* whitespace: a dict, a bare int (which has no .get), or a JSONDecodeError.
JsonLoads(s) == ValueAt(s, SkipWs(s, 1))


(***************************************************************************)
(* Shards, local paths, and what the engine's collaborators hand back.     *)
(***************************************************************************)
ModelIds == {"llama-3-8b", "llama-3-70b"}

LayerCounts == {1, 2}

\* Shard(model_id, start_layer, end_layer, n_layers) with
\* 0 <= start_layer <= end_layer < n_layers
Shards ==
  {s \in [model_id : ModelIds, start_layer : {n - 1 : n \in LayerCounts},
          end_layer : {n - 1 : n \in LayerCounts}, n_layers : LayerCounts] :
     s.start_layer <= s.end_layer /\ s.end_layer < s.n_layers}

\* self.shard = None
NoShard == [model_id |-> "", start_layer |-> -1, end_layer |-> -1, n_layers |-> 0]

\* Shard.__eq__: two shards are equal iff all four fields match; None equals no shard.
ShardEq(a, b) ==
  /\ a # NoShard
  /\ b # NoShard
  /\ a.model_id = b.model_id
  /\ a.start_layer = b.start_layer
  /\ a.end_layer = b.end_layer
  /\ a.n_layers = b.n_layers

\* A local path: the model's directory, or a weights file inside it.
NoPath == [dir |-> "", file |-> ""]

IsDir(p) == p.file = ""

Parent(p) == [dir |-> p.dir, file |-> ""]

\* What shard_downloader.ensure_shard(s) can return: the model's cache location,
\* keyed by the model id, as a directory or as a single weights file.
DownloadPaths(s) ==
  {[dir |-> s.model_id, file |-> ""], [dir |-> s.model_id, file |-> "model.safetensors"]}

\* "8B" if "8b" in shard.model_id.lower() else "70B"
ModelSize(s) == IF s.model_id \in {"llama-3-8b"} THEN "8B" ELSE "70B"

\* The attribute self.model / self.tokenizer before the first assignment.
NoModel == [path |-> NoPath, shard |-> NoShard, size |-> ""]

NoTokenizer == [path |-> NoPath, eos_token_id |-> -1]

\* build_transformer(model_path, shard, model_size): the model holds the weights
\* of `s` read from `p`.
BuildTransformer(p, s, size) == [path |-> p, shard |-> s, size |-> size]

\* AutoTokenizer.from_pretrained(str(dir)); eos is what the files there configure.
FromPretrained(p, eos) == [path |-> p, eos_token_id |-> eos]

\* token ids the forward pass samples and a tokenizer may use as eos
TokenIds == {0, 1}

\* Output of the forward pass self.model(...): a (1,)-shaped tensor holding a
\* sampled token id, a hidden-state tensor, or an exception.
ForwardOutputs ==
  {[kind |-> "scalar", item |-> i] : i \in TokenIds}
    \cup {[kind |-> "hidden", item |-> -1], [kind |-> "raise", item |-> -1]}

NoForward == [kind |-> "none", item |-> -1]

(***************************************************************************)
(* Continuation blobs (inference_state: Optional[str]).                    *)
(***************************************************************************)
None == [isNone |-> TRUE, s |-> <<>>]

Str(s) == [isNone |-> FALSE, s |-> s]

\* Mutant of OrEmptyObject: only None is replaced (inference_state is None
\* tested instead of its truth value).
OrEmptyObjectNoneOnly(b) == IF b.isNone THEN <<"{", "}">> ELSE b.s

\* inference_state or "{}"
OrEmptyObject(b) == IF b.isNone \/ b.s = <<>> THEN <<"{", "}">> ELSE b.s

\* r.get(key, 0) on the value r of json.loads; ok is FALSE when json.loads
\* raised or the value has no .get.
GetField(r, key) ==
  IF r.kind = "dict" THEN [ok |-> TRUE, val |-> DictGet(r.dict, key, 0)]
  ELSE [ok |-> FALSE, val |-> 0]

\* json.loads(inference_state or "{}").get(key, 0)
StateField(b, key) == GetField(JsonLoads(OrEmptyObject(b)), key)

\* What a call hands back: the exception raised ("" if none), the two integers
\* as decoded from inference_state, the two integers handed to json.dumps, the
\* blob json.dumps made of them, and is_terminal.
NoReturn ==
  [error |-> "", decoded |-> [start_pos |-> 0, n_captured_toks |-> 0],
   encoded |-> [start_pos |-> 0, n_captured_toks |-> 0], state |-> None,
   is_terminal |-> FALSE]

Raise(e) == [NoReturn EXCEPT !.error = e]

\* return ..., json.dumps({"start_pos": sp, "n_captured_toks": nc}), is_terminal
Returned(start_pos, n_captured_toks, sp, nc, is_terminal) ==
  [error |-> "",
   decoded |-> [start_pos |-> start_pos, n_captured_toks |-> n_captured_toks],
   encoded |-> [start_pos |-> sp, n_captured_toks |-> nc],
   state |-> Str(JsonDumps(sp, nc)),
   is_terminal |-> is_terminal]

\* Mutant of InferPromptForward: the final stage advances start_pos by the
\* captured-token count, as infer_tensor does.
InferPromptForwardByCaptured(start_pos, n_captured_toks, ntoks, h, eos) ==
  IF h.kind = "raise" THEN
    [Raise("forward") EXCEPT
       !.decoded = [start_pos |-> start_pos, n_captured_toks |-> n_captured_toks]]
  ELSE IF h.kind = "scalar" THEN
    Returned(start_pos, n_captured_toks, start_pos + n_captured_toks, 1, h.item = eos)
  ELSE
    Returned(start_pos, n_captured_toks, start_pos, (n_captured_toks + ntoks) + 1, FALSE)

\* Mutant of InferPromptForward: the intermediate stage encodes n_captured_toks
\* without the lookahead + 1.
InferPromptForwardNoLookahead(start_pos, n_captured_toks, ntoks, h, eos) ==
  IF h.kind = "raise" THEN
    [Raise("forward") EXCEPT
       !.decoded = [start_pos |-> start_pos, n_captured_toks |-> n_captured_toks]]
  ELSE IF h.kind = "scalar" THEN
    Returned(start_pos, n_captured_toks, start_pos + ntoks, 1, h.item = eos)
  ELSE
    Returned(start_pos, n_captured_toks, start_pos, n_captured_toks + ntoks, FALSE)

\* Mutant of InferPromptForward: the final stage sets start_pos = len(toks)
\* instead of adding to it.
InferPromptForwardAssign(start_pos, n_captured_toks, ntoks, h, eos) ==
  IF h.kind = "raise" THEN
    [Raise("forward") EXCEPT
       !.decoded = [start_pos |-> start_pos, n_captured_toks |-> n_captured_toks]]
  ELSE IF h.kind = "scalar" THEN
    Returned(start_pos, n_captured_toks, ntoks, 1, h.item = eos)
  ELSE
    Returned(start_pos, n_captured_toks, start_pos, (n_captured_toks + ntoks) + 1, FALSE)

\* Mutant of InferPromptForward: the intermediate stage advances start_pos by
\* the prompt's tokens as well.
InferPromptForwardAdvances(start_pos, n_captured_toks, ntoks, h, eos) ==
  IF h.kind = "raise" THEN
    [Raise("forward") EXCEPT
       !.decoded = [start_pos |-> start_pos, n_captured_toks |-> n_captured_toks]]
  ELSE IF h.kind = "scalar" THEN
    Returned(start_pos, n_captured_toks, start_pos + ntoks, 1, h.item = eos)
  ELSE
    Returned(start_pos, n_captured_toks, start_pos + ntoks, (n_captured_toks + ntoks) + 1,
             FALSE)

\* infer_prompt from the forward pass on: start_pos and n_captured_toks as
\* decoded, ntoks = len(self.tokenizer.encode(prompt)), h the forward output,
\* eos self.tokenizer.eos_token_id.
InferPromptForward(start_pos, n_captured_toks, ntoks, h, eos) ==
  IF h.kind = "raise" THEN
    [Raise("forward") EXCEPT
       !.decoded = [start_pos |-> start_pos, n_captured_toks |-> n_captured_toks]]
  ELSE IF h.kind = "scalar" THEN
    Returned(start_pos, n_captured_toks, start_pos + ntoks, 1, h.item = eos)
  ELSE
    Returned(start_pos, n_captured_toks, start_pos, (n_captured_toks + ntoks) + 1, FALSE)

\* infer_prompt after ensure_shard.  r is json.loads(inference_state or "{}"),
\* which the code evaluates once for each of the two fields.
InferPromptDecoded(r, ntoks, h, eos) ==
  IF r.kind # "dict" THEN Raise("json")
  ELSE InferPromptForward(DictGet(r.dict, KeyStartPos, 0),
                          DictGet(r.dict, KeyNCapturedToks, 0), ntoks, h, eos)

InferPromptBody(inference_state, ntoks, h, eos) ==
  InferPromptDecoded(JsonLoads(OrEmptyObject(inference_state)), ntoks, h, eos)

\* Mutant of InferTensorForward: the final stage advances start_pos by one.
InferTensorForwardByOne(start_pos, n_captured_toks, h, eos) ==
  IF h.kind = "raise" THEN
    [Raise("forward") EXCEPT
       !.decoded = [start_pos |-> start_pos, n_captured_toks |-> n_captured_toks]]
  ELSE IF h.kind = "scalar" THEN
    Returned(start_pos, n_captured_toks, start_pos + 1, 1, h.item = eos)
  ELSE
    Returned(start_pos, n_captured_toks, start_pos, n_captured_toks, FALSE)

\* Mutant of InferTensorForward: the final stage never reports is_terminal.
InferTensorForwardNeverTerminal(start_pos, n_captured_toks, h, eos) ==
  IF h.kind = "raise" THEN
    [Raise("forward") EXCEPT
       !.decoded = [start_pos |-> start_pos, n_captured_toks |-> n_captured_toks]]
  ELSE IF h.kind = "scalar" THEN
    Returned(start_pos, n_captured_toks, start_pos + n_captured_toks, 1, FALSE)
  ELSE
    Returned(start_pos, n_captured_toks, start_pos, n_captured_toks, FALSE)

\* Mutant of InferTensorForward: the intermediate stage adds the lookahead + 1
\* to n_captured_toks, as infer_prompt's does.
InferTensorForwardLookahead(start_pos, n_captured_toks, h, eos) ==
  IF h.kind = "raise" THEN
    [Raise("forward") EXCEPT
       !.decoded = [start_pos |-> start_pos, n_captured_toks |-> n_captured_toks]]
  ELSE IF h.kind = "scalar" THEN
    Returned(start_pos, n_captured_toks, start_pos + n_captured_toks, 1, h.item = eos)
  ELSE
    Returned(start_pos, n_captured_toks, start_pos, n_captured_toks + 1, FALSE)

\* Mutant of InferTensorForward: the intermediate stage hands on
\* n_captured_toks = 0.
InferTensorForwardResets(start_pos, n_captured_toks, h, eos) ==
  IF h.kind = "raise" THEN
    [Raise("forward") EXCEPT
       !.decoded = [start_pos |-> start_pos, n_captured_toks |-> n_captured_toks]]
  ELSE IF h.kind = "scalar" THEN
    Returned(start_pos, n_captured_toks, start_pos + n_captured_toks, 1, h.item = eos)
  ELSE
    Returned(start_pos, n_captured_toks, start_pos, 0, FALSE)

\* infer_tensor from the forward pass on.
InferTensorForward(start_pos, n_captured_toks, h, eos) ==
  IF h.kind = "raise" THEN
    [Raise("forward") EXCEPT
       !.decoded = [start_pos |-> start_pos, n_captured_toks |-> n_captured_toks]]
  ELSE IF h.kind = "scalar" THEN
    Returned(start_pos, n_captured_toks, start_pos + n_captured_toks, 1, h.item = eos)
  ELSE
    Returned(start_pos, n_captured_toks, start_pos, n_captured_toks, FALSE)

\* infer_tensor after ensure_shard.
InferTensorDecoded(r, h, eos) ==
  IF r.kind # "dict" THEN Raise("json")
  ELSE InferTensorForward(DictGet(r.dict, KeyStartPos, 0),
                          DictGet(r.dict, KeyNCapturedToks, 0), h, eos)

InferTensorBody(inference_state, h, eos) ==
  InferTensorDecoded(JsonLoads(OrEmptyObject(inference_state)), h, eos)

(***************************************************************************)
(* Acquisition: get_model_path, download_async_with_progress,              *)
(* get_repo_size, download_repo, monitor_progress.                         *)
(***************************************************************************)
\* Bounds: the bytes of allow-listed files in the remote repository, the
\* samples one monitor takes, the get_model_path calls made in sequence.
MaxBytes == 2

MaxSamples == 3

MaxCalls == 2

\* Path(path_or_hf_repo): paths are sequences of components.
PathOf(path_or_hf_repo) == <<path_or_hf_repo>>

\* os.path.join(HF_HUB_CACHE, repo_folder_name(repo_id=repo_id, repo_type="model"))
StorageFolder(repo_id) == <<"HF_HUB_CACHE", "models", repo_id>>

\* What snapshot_download returns: the snapshot directory in the storage folder.
SnapshotPath(repo_id) == StorageFolder(repo_id) \o <<"snapshots">>

\* The repository that exists on the hub, one that does not, and a local
\* directory that holds a model.
HubRepo == "org/model"

MissingRepo == "org/missing"

LocalModel == "/models/local"

\* The path_or_hf_repo arguments callers pass.
PathArgs == {PathOf(HubRepo), PathOf(MissingRepo), PathOf(LocalModel), SnapshotPath(HubRepo)}

\* The hub repository's files: the bytes of the files matching get_model_path's
\* allow_patterns, and the bytes of its other files.
RepoContents == {[listed |-> a, unlisted |-> b] : a \in 0..MaxBytes, b \in 0..1}

NoPatterns == "None"

ModelPatterns == "*.json, *.safetensors, *.py, tokenizer.model, *.tiktoken, *.txt"

\* get_repo_size: filter_repo_objects keeps every file when allow_patterns is
\* None; the sizes of the kept files are summed.
GetRepoSize(r, allow_patterns) ==
  IF allow_patterns = NoPatterns THEN r.listed + r.unlisted ELSE r.listed

NoError == [type |-> "", message |-> <<>>]

Error(type) == [type |-> type, message |-> <<type>>]

\* ModelNotFoundError(message): the message names the repository and tells how
\* to correct the path or authenticate.
ModelNotFoundError(path_or_hf_repo) ==
  [type |-> "ModelNotFoundError",
   message |-> <<"Model not found for path or HF repo: ", path_or_hf_repo,
                 "Please make sure you specified the local path or Hugging Face repo id correctly.",
                 "If you are trying to access a private or gated Hugging Face repo, make sure you are authenticated">>]

\* Mutant of Raised: every exception of the download is reported as not found.
RaisedCatchAll(e, path_or_hf_repo) == ModelNotFoundError(path_or_hf_repo)

\* get_model_path's try/except around download_async_with_progress: the
\* exception the caller of get_model_path sees when e is raised inside it.
Raised(e, path_or_hf_repo) ==
  IF e.type = "RepositoryNotFoundError" THEN ModelNotFoundError(path_or_hf_repo) ELSE e

\* The exceptions list_repo_tree raises for a repository.
RepoSizeErrors(arg) ==
  IF arg = PathOf(HubRepo) THEN {Error("ConnectionError")}
  ELSE {Error("RepositoryNotFoundError"), Error("ConnectionError")}

\* The exceptions snapshot_download raises.
TransferErrors == {Error("RepositoryNotFoundError"), Error("OSError")}

NoTask == [st |-> "none", result |-> <<>>, error |-> NoError]

Created == [st |-> "created", result |-> <<>>, error |-> NoError]

\* Mutant of CurrentSize: the byte count wraps around.
CurrentSizeWrapped(bytes) == bytes % 2

\* monitor_progress: the sizes of the files under dir, summed.
CurrentSize(bytes) == bytes

\* progress = min(current_size / total_size * 100, 100), to the whole percent
\* below (which is >= 100 exactly when the quotient is); total_size # 0.
Progress(current_size, total_size) ==
  IF (current_size * 100) \div total_size < 100
    THEN (current_size * 100) \div total_size ELSE 100

\* Mutant of Complete: the loop waits for more than 100 percent.
CompleteAbove(progress) == progress > 100

\* if progress >= 100: break
Complete(progress) == progress >= 100

\* Mutant of OnProgress: the callback is throttled to samples that differ from
\* the last one reported.
OnProgressThrottled(supplied, reported, current_size, total_size) ==
  IF supplied /\ (reported = <<>> \/ reported[Len(reported)] # <<current_size, total_size>>)
    THEN Append(reported, <<current_size, total_size>>) ELSE reported

\* if on_progress: on_progress(current_size, total_size)
OnProgress(supplied, reported, current_size, total_size) ==
  IF supplied THEN Append(reported, <<current_size, total_size>>) ELSE reported

(***************************************************************************)
(* main.py: throttled_broadcast, the subscriber of the progress events.    *)
(***************************************************************************)
\* The largest value of the clock.
MaxClock == 6
\* The largest number of progress events delivered to the subscriber.
MaxEvents == 4

\* time.time() counts ticks of 50 ms: the 0.1 s of the throttle are 2 ticks.
ThrottleTicks == 2

\* RepoProgressEvent.status
Statuses == {"in_progress", "complete", "error"}

\* Mutant of Forwarded: a complete event is throttled like every other.
ForwardedNoBypass(status, current_time, last) == current_time - last >= ThrottleTicks

\* Mutant of Forwarded: the window is one tick shorter.
ForwardedEarly(status, current_time, last) ==
  status = "complete" \/ current_time - last >= ThrottleTicks - 1

\* Mutant of Forwarded: every terminal event, "error" too, passes the throttle.
ForwardedTerminal(status, current_time, last) ==
  status \in {"complete", "error"} \/ current_time - last >= ThrottleTicks

\* if event.status == "complete" or current_time - last_broadcast_time >= 0.1
Forwarded(status, current_time, last) ==
  status = "complete" \/ current_time - last >= ThrottleTicks

(***************************************************************************)
(* The shard downloader's progress event bus (on_progress) and its         *)
(* download status (get_shard_download_status), from their specification.  *)
(***************************************************************************)
\* The largest number of progress events emitted.
MaxEmitted == 3
\* The largest number of register calls.
MaxRegistered == 3

\* on_progress.register(name)
SubscriberNames == {"test", "broadcast"}

\* .on_next(callback)
Callbacks == {"print", "throttled_broadcast"}

\* ensure_shard(shard, engine_name)
EngineNames == {"MLXDynamicShardInferenceEngine", "TinygradDynamicShardInferenceEngine"}

DownloadShards ==
  {[model_id |-> "llama-3.2-1b", start_layer |-> 0, end_layer |-> 0, n_layers |-> 16]}

\* The bytes of a shard's files: at least one.
TotalBytes(s) == MaxBytes

\* No Download Status for a (shard, engine name) pair.
NoStatus == [downloaded_bytes |-> 0, total_bytes |-> 0, status |-> "absent"]

\* Download Status, created on the first acquisition attempt.
NotStarted(s) == [downloaded_bytes |-> 0, total_bytes |-> TotalBytes(s), status |-> "not_started"]

\* Mutant of Subscribe: a second registration under a name adds a callback.
SubscribeAppend(subs, name, callback) == Append(subs, [name |-> name, callback |-> callback])

\* register(name).on_next(callback): a new name is added after the registered
\* ones; an existing name keeps its place and has its callback replaced.
Subscribe(subs, name, callback) ==
  IF \E i \in DOMAIN subs : subs[i].name = name
    THEN [i \in DOMAIN subs |->
            IF subs[i].name = name THEN [name |-> name, callback |-> callback] ELSE subs[i]]
    ELSE Append(subs, [name |-> name, callback |-> callback])

\* The callback invocations of the k-th emission: every subscriber, in order.
Deliveries(subs, k, event) ==
  [i \in DOMAIN subs |-> [k |-> k, callback |-> subs[i].callback, event |-> event]]

\* Mutant of Completed: the entry is dropped once the download is complete.
CompletedDropped(entry) == NoStatus

\* The Download Status of a completed acquisition.
Completed(entry) == [entry EXCEPT !.status = "complete"]

(***************************************************************************)
(* mariadb_tools.py: QueryValidator.  A query is a sequence of fragments   *)
(* of text: keywords, names, punctuation and runs of whitespace.           *)
(***************************************************************************)
\* The largest number of phrases in a query.
MaxPhrases == 2

\* if len(query) > 10000
MaxQueryChars == 10000

\* A run of spaces that fills a query starting with SELECT and one more character
\* up to MaxQueryChars.
Pad == "<spaces>"

PadChars == MaxQueryChars - 7

\* len() of a fragment
Chars(f) == IF f = Pad THEN PadChars ELSE Len(f)

\* len(query)
RECURSIVE QueryLen(_)
QueryLen(q) == IF q = <<>> THEN 0 ELSE Chars(Head(q)) + QueryLen(Tail(q))

\* The fragments str.strip() removes and \s matches.
IsSpace(f) == f \in {" ", "\n", Pad}

\* str.upper()
Upper(f) ==
  CASE f = "select" -> "SELECT"
    [] f = "drop" -> "DROP"
    [] f = "table" -> "TABLE"
    [] OTHER -> f

UpperAll(q) == [i \in DOMAIN q |-> Upper(q[i])]

RECURSIVE LStrip(_)
LStrip(q) == IF q # <<>> /\ IsSpace(Head(q)) THEN LStrip(Tail(q)) ELSE q

RECURSIVE RStrip(_)
RStrip(q) ==
  IF q # <<>> /\ IsSpace(q[Len(q)]) THEN RStrip(SubSeq(q, 1, Len(q) - 1)) ELSE q

\* str.strip()
Strip(q) == RStrip(LStrip(q))

\* QueryValidator.ALLOWED_STATEMENTS
ALLOWED_STATEMENTS ==
  {"SELECT", "INSERT", "UPDATE", "DELETE", "SHOW", "DESCRIBE", "EXPLAIN"}

\* str.startswith(stmt): what follows the statement is not looked at.
StartsWith(q, stmt) == q # <<>> /\ q[1] = stmt

\* The elements of a regular expression: one of some literals; \s+; \s*; .*?
\* (which does not match a newline); an optional group.
Lit(of) == [kind |-> "lit", of |-> of, atoms |-> <<>>]

Spaces1 == [kind |-> "s+", of |-> {}, atoms |-> <<>>]

Spaces0 == [kind |-> "s*", of |-> {}, atoms |-> <<>>]

AnyLazy == [kind |-> ".*?", of |-> {}, atoms |-> <<>>]

Optional(atoms) == [kind |-> "?", of |-> {}, atoms |-> atoms]

\* QueryValidator.DANGEROUS_PATTERNS
DANGEROUS_PATTERNS ==
  << <<Lit({"DROP"}), Spaces1, Lit({"DATABASE", "TABLE", "INDEX", "VIEW"})>>,
     <<Lit({"CREATE"}), Spaces1, Lit({"DATABASE", "TABLE", "INDEX", "VIEW"})>>,
     <<Lit({"ALTER"}), Spaces1, Lit({"DATABASE", "TABLE"})>>,
     <<Lit({"TRUNCATE"}), Spaces1, Lit({"TABLE"})>>,
     <<Lit({"GRANT"}), Spaces1>>,
     <<Lit({"REVOKE"}), Spaces1>>,
     <<Lit({"LOAD"}), Spaces1, Lit({"DATA"})>>,
     <<Lit({"INTO"}), Spaces1, Lit({"OUTFILE"})>>,
     <<Lit({"LOAD_FILE"}), Spaces0, Lit({"("})>>,
     <<Lit({"--"}), Spaces0>>,
     <<Lit({"/*"}), AnyLazy, Lit({"*/"})>>,
     <<Lit({";"}), Spaces0, Lit({"DROP"})>>,
     <<Lit({"UNION"}), Spaces1, Optional(<<Lit({"ALL"}), Spaces1>>), Lit({"SELECT"})>> >>

\* The pattern `atoms` matches the text q from fragment i on; with
\* re.IGNORECASE a literal matches in either case.
RECURSIVE MatchAt(_, _, _)
MatchAt(atoms, q, i) ==
  IF atoms = <<>> THEN TRUE
  ELSE LET a == Head(atoms)
           rest == Tail(atoms)
       IN  CASE a.kind = "lit" ->
                  i <= Len(q) /\ Upper(q[i]) \in a.of /\ MatchAt(rest, q, i + 1)
             [] a.kind = "s+" ->
                  /\ i <= Len(q)
                  /\ IsSpace(q[i])
                  /\ (MatchAt(rest, q, i + 1) \/ MatchAt(atoms, q, i + 1))
             [] a.kind = "s*" ->
                  \/ MatchAt(rest, q, i)
                  \/ i <= Len(q) /\ IsSpace(q[i]) /\ MatchAt(atoms, q, i + 1)
             [] a.kind = ".*?" ->
                  \/ MatchAt(rest, q, i)
                  \/ i <= Len(q) /\ q[i] # "\n" /\ MatchAt(atoms, q, i + 1)
             [] OTHER ->
                  MatchAt(rest, q, i) \/ MatchAt(a.atoms \o rest, q, i)

\* re.search(pattern, q, re.IGNORECASE)
Search(atoms, q) == \E i \in 1..Len(q) + 1 : MatchAt(atoms, q, i)

Valid == [is_valid |-> TRUE, error |-> "", pattern |-> 0]

Invalid(error, pattern) == [is_valid |-> FALSE, error |-> error, pattern |-> pattern]

\* QueryValidator.validate_query(query): (is_valid, error_message), and the
\* first pattern found.
ValidateQuery(query) ==
  LET query_upper == Strip(UpperAll(query))
      found == {n \in DOMAIN DANGEROUS_PATTERNS : Search(DANGEROUS_PATTERNS[n], query_upper)}
  IN  IF query = <<>> \/ Strip(query) = <<>> THEN Invalid("Empty query", 0)
      ELSE IF ~\E stmt \in ALLOWED_STATEMENTS : StartsWith(query_upper, stmt)
        THEN Invalid("Query must start with one of", 0)
      ELSE IF found # {}
        THEN Invalid("Query contains dangerous pattern",
                     CHOOSE n \in found : \A m \in found : n <= m)
      ELSE IF QueryLen(query) > MaxQueryChars THEN Invalid("Query too long", 0)
      ELSE Valid

\* The texts queries are put together from: what a query starts with ...
Starts == {<<>>, <<"SELECT">>, <<"select">>, <<"x">>}

\* ... and what follows.
Phrases ==
  {<<" ">>, <<"x">>, <<Pad>>,
   <<" ", "DROP", " ", "TABLE">>, <<" ", "drop", "\n", "table">>, <<" ", "DROP">>,
   <<";", "DROP">>, <<" ", "GRANT">>,
   <<" ", "UNION", " ", "ALL", " ", "SELECT">>, <<" ", "UNION", "SELECT">>,
   <<" ", "LOAD_FILE", "(">>, <<"--">>,
   <<"/*", "x", "*/">>, <<"/*", "\n", "*/">>}

RECURSIVE Bodies(_)
Bodies(n) ==
  IF n = 0 THEN {<<>>} ELSE Bodies(n - 1) \cup {b \o ph : b \in Bodies(n - 1), ph \in Phrases}

Queries == {lead \o st \o b : lead \in {<<>>, <<" ">>}, st \in Starts, b \in Bodies(MaxPhrases)}

NoValidation == [is_valid |-> FALSE, error |-> "none", pattern |-> 0]

(***************************************************************************)
(* mariadb_tools.py: MariaDBConnectionPool and MariaDBTools.execute_query. *)
(***************************************************************************)
\* config.max_connections
MaxConnections == 2
\* self._max_history (1000 in the source)
MaxHistory == 2
\* The largest number of execute_query calls.
MaxExecuted == 3

\* 'query': query[:200] + '...' if len(query) > 200 else query
LogChars == 200

\* hashlib.md5(query.encode()).hexdigest()[:16]
HashQuery(q) == <<"md5">> \o q

\* No connection: conn = None.
NoConn == 0

\* QueryResult(success, error, query_hash); the query it is the result of.
QueryResult(q, success, error) ==
  [query |-> q, success |-> success, error |-> error, query_hash |-> HashQuery(q)]

NoQueryResult == [query |-> <<>>, success |-> FALSE, error |-> <<"none">>, query_hash |-> <<>>]

\* _log_query: the entry, and the history trimmed to its last MaxHistory entries.
LogEntry(q, r) ==
  [query_hash |-> r.query_hash,
   query |-> IF QueryLen(q) > LogChars THEN <<"[:200]">> \o q \o <<"...">> ELSE q,
   success |-> r.success,
   error |-> r.error]

LastEntries(history) ==
  IF Len(history) > MaxHistory
    THEN SubSeq(history, Len(history) - MaxHistory + 1, Len(history)) ELSE history

LogQuery(history, q, r) == LastEntries(Append(history, LogEntry(q, r)))

\* Mutant of Rejected: the verdict of the validator is not looked at.
RejectedNever(v) == FALSE

\* if not is_valid
Rejected(v) == ~v.is_valid

\* Mutant of GetConnection: the pool size is not compared with self._max_size.
GetConnectionUnbounded(idle, n, max, c, connected) ==
  IF idle # <<>> THEN
    [conn |-> idle[Len(idle)], pool |-> SubSeq(idle, 1, Len(idle) - 1), pool_size |-> n,
     created |-> c, error |-> <<>>]
  ELSE IF connected
    THEN [conn |-> c + 1, pool |-> idle, pool_size |-> n + 1, created |-> c + 1,
          error |-> <<>>]
    ELSE [conn |-> NoConn, pool |-> idle, pool_size |-> n, created |-> c,
          error |-> <<"OperationalError">>]

\* get_connection with the pool idle, the pool size n and c connections made so
\* far, under self._max_size = max; connected: pymysql.connect
\* succeeds.  The connection, or the error raised.
GetConnection(idle, n, max, c, connected) ==
  IF idle # <<>> THEN
    [conn |-> idle[Len(idle)], pool |-> SubSeq(idle, 1, Len(idle) - 1), pool_size |-> n,
     created |-> c, error |-> <<>>]
  ELSE IF n < max THEN
    IF connected
      THEN [conn |-> c + 1, pool |-> idle, pool_size |-> n + 1, created |-> c + 1,
            error |-> <<>>]
      ELSE [conn |-> NoConn, pool |-> idle, pool_size |-> n, created |-> c,
            error |-> <<"OperationalError">>]
  ELSE [conn |-> NoConn, pool |-> idle, pool_size |-> n, created |-> c,
        error |-> <<"Connection pool exhausted">>]

\* Mutant of ReturnConnection: a closed connection is dropped without being
\* taken off the pool size.
ReturnConnectionKeepSize(idle, n, conn, is_open) ==
  IF conn # NoConn /\ is_open
    THEN [pool |-> Append(idle, conn), pool_size |-> n]
    ELSE [pool |-> idle, pool_size |-> n]

\* return_connection(conn): if conn and conn.open: append, else: _pool_size -= 1
ReturnConnection(idle, n, conn, is_open) ==
  IF conn # NoConn /\ is_open
    THEN [pool |-> Append(idle, conn), pool_size |-> n]
    ELSE [pool |-> idle, pool_size |-> n - 1]

\* The queries handed to execute_query.
ExecutedQueries ==
  {<<"SELECT", " ", "x">>, <<"select", " ", "x", Pad>>, <<>>, <<Pad>>,
   <<"DROP", " ", "TABLE">>, <<"SELECT", " ", "x", ";", "DROP">>}

(***************************************************************************)
(* State.                                                                  *)
(***************************************************************************)
VARIABLES
  shard,       \* self.shard
  model,       \* self.model
  tokenizer,   \* self.tokenizer
  pc,          \* per task: "idle", or "downloading" (suspended in ensure_shard's await)
  req,         \* per task: the arguments of the call it is suspended in
  held,        \* the continuation blob the caller holds, whether it descends
               \* from a fresh start through returned states only, and the
               \* calls it came through
  last         \* what the latest step returned to its caller: the call's
               \* arguments, the collaborators it called, its result (NoLast
               \* when the latest step returned nothing)

VARIABLES
  exists,         \* the paths for which Path.exists() is true
  storage,        \* the bytes of the files under StorageFolder(HubRepo)
  repo,           \* the files of HubRepo on the hub
  requests,       \* the network requests made so far (list_repo_tree, snapshot_download)
  gpc,            \* get_model_path: "idle", or suspended in "get_repo_size" or "gather"
  call,           \* the arguments of the latest get_model_path call that went to the hub
  total_size,     \* download_async_with_progress: total_size
  download_task,  \* download_async_with_progress: download_task
  progress_task,  \* download_async_with_progress: progress_task
  failed,         \* the first exception a task raised under asyncio.gather
  sampled,        \* the current_size of each sample the monitor completed
  reported,       \* the (current_size, total_size) of each on_progress invocation
  got             \* the outcome of the latest get_model_path call that ended

VARIABLES
  now,                 \* time.time()
  last_broadcast_time, \* main.py: last_broadcast_time
  events,              \* the events throttled_broadcast was called with, and when
  broadcasts           \* the node.broadcast_opaque_status tasks created, in order

VARIABLES
  subscribers,     \* on_progress: the (name, callback) pairs, in registration order
  registrations,   \* the register calls made, in order
  emitted,         \* the progress events emitted, each with the number of register
                   \* calls made before it
  delivered,       \* the callback invocations made, in order
  download_status, \* per engine name and shard: the Download Status
  attempts,        \* per engine name and shard: the ensure_shard calls made
  succeeded        \* the (engine name, shard) pairs whose ensure_shard returned a path

VARIABLES
  query,      \* the query validate_query was called with last
  validation  \* what it returned

VARIABLES
  pool,           \* MariaDBConnectionPool._pool
  pool_size,      \* MariaDBConnectionPool._pool_size
  max_size,       \* MariaDBConnectionPool._max_size (config.max_connections)
  opened,         \* the connections whose conn.open is true
  created,        \* the connections pymysql.connect has made
  acquired,       \* the get_connection calls made
  sent,           \* the queries handed to cursor.execute
  query_history,  \* MariaDBTools._query_history
  query_result,   \* what the latest execute_query call returned
  executed        \* the execute_query calls made

inference == <<shard, model, tokenizer, pc, req, held, last>>

tasks == <<total_size, download_task, progress_task, failed, sampled, reported>>

acquisition == <<exists, storage, repo, requests, gpc, call, tasks, got>>

throttle == <<now, last_broadcast_time, events, broadcasts>>

bus == <<subscribers, registrations, emitted, delivered>>

downloads == <<download_status, attempts, succeeded>>

validator == <<query, validation>>

database ==
  <<pool, pool_size, max_size, opened, created, acquired, sent, query_history, query_result,
    executed>>

periphery == <<throttle, bus, downloads, validator, database>>

vars == <<inference, acquisition, periphery>>

engine == <<shard, model, tokenizer>>

Tasks == {"t1", "t2"}

NoReq == [op |-> "", shard |-> NoShard, inference_state |-> None, fresh |-> FALSE, ntoks |-> 0]

\* The caller holding blob b that no call of the engine returned.
Holding(b) ==
  [blob |-> b, fresh |-> b \in {None, Str(<<>>)}, base |-> 0, hops |-> -1, prompted |-> -1]

NoLast ==
  [task |-> "", op |-> "", shard |-> NoShard, calls |-> {}, inference_state |-> None,
   fresh |-> FALSE, ntoks |-> 0, h |-> NoForward, ret |-> NoReturn, held |-> Holding(None)]

NoCall == [arg |-> <<>>, on_progress |-> FALSE]

NoResult ==
  [n |-> 0, arg |-> <<>>, kind |-> "", path |-> <<>>, error |-> NoError,
   cause |-> NoError, requests |-> 0, downloaded |-> FALSE, samples |-> 0]

\* Nothing downloaded yet, no get_model_path call made; the hub repository
\* holds the files r.
InitAcquisition(r) ==
  /\ exists = {PathOf(LocalModel)}
  /\ storage = 0
  /\ repo = r
  /\ requests = 0
  /\ gpc = "idle"
  /\ call = NoCall
  /\ total_size = 0
  /\ download_task = NoTask
  /\ progress_task = NoTask
  /\ failed = NoError
  /\ sampled = <<>>
  /\ reported = <<>>
  /\ got = NoResult

\* main.py line 92: last_broadcast_time = 0; the clock is past the epoch by more
\* than the throttle's window, and no event has been delivered yet.
InitThrottle ==
  /\ now = ThrottleTicks
  /\ last_broadcast_time = 0
  /\ events = <<>>
  /\ broadcasts = <<>>

\* A new shard downloader: no subscriber, no Download Status.
InitBus ==
  /\ subscribers = <<>>
  /\ registrations = <<>>
  /\ emitted = <<>>
  /\ delivered = <<>>
  /\ download_status = [e \in EngineNames |-> [s \in DownloadShards |-> NoStatus]]
  /\ attempts = [e \in EngineNames |-> [s \in DownloadShards |-> 0]]
  /\ succeeded = {}

\* validate_query has not been called.
InitValidator ==
  /\ query = <<>>
  /\ validation = NoValidation

\* MariaDBConnectionPool.__init__ under config.max_connections = m,
\* MariaDBTools.__init__
InitDatabaseOf(m) ==
  /\ pool = <<>>
  /\ pool_size = 0
  /\ max_size = m
  /\ opened = {}
  /\ created = 0
  /\ acquired = 0
  /\ sent = <<>>
  /\ query_history = <<>>
  /\ query_result = NoQueryResult
  /\ executed = 0

InitDatabase == InitDatabaseOf(MaxConnections)

InitPeriphery == InitThrottle /\ InitBus /\ InitValidator /\ InitDatabase

\* __init__: no shard; model and tokenizer are not assigned yet.
Init ==
  /\ shard = NoShard
  /\ model = NoModel
  /\ tokenizer = NoTokenizer
  /\ pc = [t \in Tasks |-> "idle"]
  /\ req = [t \in Tasks |-> NoReq]
  /\ held = Holding(None)
  /\ last = NoLast
  /\ InitAcquisition([listed |-> MaxBytes, unlisted |-> 0])
  /\ InitPeriphery

(***************************************************************************)
(* ensure_shard, infer_prompt, infer_tensor.                               *)
(***************************************************************************)
\* Mutant of CacheHit: object identity (`is`) instead of equality; each call
\* passes a Shard object of its own.
CacheHitByIdentity(s) == FALSE

\* Mutant of CacheHit: only the model id is compared.
CacheHitByModelId(s) == shard # NoShard /\ shard.model_id = s.model_id

\* if self.shard == shard: return
CacheHit(s) == ShardEq(shard, s)

\* Mutant of LoadShard: the identity check is made again after the downloader
\* returned, and a shard another call has loaded meanwhile is not built again.
LoadShardOnce(p, s, bm, bt, eos) ==
  IF ShardEq(shard, s) THEN
    [model |-> model, tokenizer |-> tokenizer, shard |-> shard, error |-> "", calls |-> {}]
  ELSE IF ~bm THEN
    [model |-> model, tokenizer |-> tokenizer, shard |-> shard,
     error |-> "build_transformer", calls |-> {"build_transformer"}]
  ELSE IF ~bt THEN
    [model |-> BuildTransformer(p, s, ModelSize(s)), tokenizer |-> tokenizer,
     shard |-> shard, error |-> "from_pretrained",
     calls |-> {"build_transformer", "from_pretrained"}]
  ELSE
    [model |-> BuildTransformer(p, s, ModelSize(s)),
     tokenizer |-> FromPretrained(IF IsDir(p) THEN p ELSE Parent(p), eos),
     shard |-> s, error |-> "",
     calls |-> {"build_transformer", "from_pretrained"}]

\* ensure_shard after the downloader returned p: build_transformer (bm: it
\* succeeds), then AutoTokenizer.from_pretrained (bt: it succeeds), then
\* self.shard = shard.  The engine's fields, the collaborators called and the
\* error raised, if any.
LoadShard(p, s, bm, bt, eos) ==
  IF ~bm THEN
    [model |-> model, tokenizer |-> tokenizer, shard |-> shard,
     error |-> "build_transformer", calls |-> {"build_transformer"}]
  ELSE IF ~bt THEN
    [model |-> BuildTransformer(p, s, ModelSize(s)), tokenizer |-> tokenizer,
     shard |-> shard, error |-> "from_pretrained",
     calls |-> {"build_transformer", "from_pretrained"}]
  ELSE
    [model |-> BuildTransformer(p, s, ModelSize(s)),
     tokenizer |-> FromPretrained(IF IsDir(p) THEN p ELSE Parent(p), eos),
     shard |-> s, error |-> "",
     calls |-> {"build_transformer", "from_pretrained"}]

\* What follows `await self.ensure_shard(shard)` in operation op.
Body(op, inference_state, ntoks, h, eos) ==
  IF op = "infer_prompt" THEN InferPromptBody(inference_state, ntoks, h, eos)
  ELSE IF op = "infer_tensor" THEN InferTensorBody(inference_state, h, eos)
  ELSE NoReturn

\* The blob is the fresh start, or the state the caller holds from a chain of
\* calls that began with a fresh start.
Chained(b) == b \in {None, Str(<<>>)} \/ (held.fresh /\ b = held.blob)

\* The state a final stage returned is passed through one more intermediate
\* stage: infer_tensor is given the blob the caller holds.
Passed(op, b) == op = "infer_tensor" /\ b = held.blob /\ held.hops >= 0

\* The call returns r (or raises r.error): the caller keeps the returned state,
\* and with it the start_pos the latest final stage returned (base), the
\* intermediate infer_tensor calls the state was passed through since (hops,
\* counted up to MaxHops; -1 when it does not descend from a final stage that
\* way), and the number of tokens of the prompt when the state was returned by
\* an intermediate-stage infer_prompt given the fresh state (prompted; -1
\* otherwise).
Return(t, op, s, calls, b, fresh, ntoks, h, r) ==
  /\ last' = [task |-> t, op |-> op, shard |-> s, calls |-> calls,
              inference_state |-> b, fresh |-> fresh, ntoks |-> ntoks,
              h |-> IF op = "ensure_shard" \/ r.error \notin {"", "forward"}
                      THEN NoForward ELSE h,
              ret |-> r, held |-> held]
  /\ held' = IF op # "ensure_shard" /\ r.error = ""
               THEN [blob |-> r.state, fresh |-> fresh,
                     base |-> IF h.kind = "scalar" THEN r.encoded.start_pos
                              ELSE IF Passed(op, b) THEN held.base ELSE 0,
                     hops |-> IF h.kind = "scalar" THEN 0
                              ELSE IF Passed(op, b)
                                THEN (IF held.hops < MaxHops THEN held.hops + 1 ELSE MaxHops)
                              ELSE -1,
                     prompted |-> IF op = "infer_prompt" /\ h.kind = "hidden"
                                       /\ r.decoded = [start_pos |-> 0, n_captured_toks |-> 0]
                                    THEN ntoks ELSE -1]
               ELSE held

\* Task t calls operation op with shard s: on a cache hit the whole call runs
\* without suspending; otherwise it calls the downloader and suspends.
Call(t, op, s, b, ntoks, h) ==
  /\ pc[t] = "idle"
  /\ IF CacheHit(s) THEN
       /\ Return(t, op, s, {}, b, Chained(b), ntoks, h,
                 Body(op, b, ntoks, h, tokenizer.eos_token_id))
       /\ UNCHANGED <<engine, pc, req>>
     ELSE
       /\ pc' = [pc EXCEPT ![t] = "downloading"]
       /\ req' = [req EXCEPT ![t] = [op |-> op, shard |-> s, inference_state |-> b,
                                      fresh |-> Chained(b), ntoks |-> ntoks]]
       /\ last' = NoLast
       /\ UNCHANGED <<engine, held>>
  /\ UNCHANGED <<acquisition, periphery>>

EnsureShard(t, s) == Call(t, "ensure_shard", s, None, 0, NoForward)

InferPrompt(t, s, b, ntoks, h) == Call(t, "infer_prompt", s, b, ntoks, h)

InferTensor(t, s, b, h) == Call(t, "infer_tensor", s, b, 0, h)

\* The downloader raises in task t's ensure_shard: the call raises.
DownloaderRaise(t) ==
  /\ pc[t] = "downloading"
  /\ Return(t, req[t].op, req[t].shard, {"ensure_shard"}, req[t].inference_state,
            req[t].fresh, req[t].ntoks, NoForward, Raise("ensure_shard"))
  /\ pc' = [pc EXCEPT ![t] = "idle"]
  /\ req' = [req EXCEPT ![t] = NoReq]
  /\ UNCHANGED engine
  /\ UNCHANGED <<acquisition, periphery>>

\* The downloader returns path p to task t's ensure_shard, which loads the shard;
\* the operation then runs to its end.
DownloaderReturn(t, p, bm, bt, eos, h) ==
  /\ pc[t] = "downloading"
  /\ LET ld == LoadShard(p, req[t].shard, bm, bt, eos)
     IN  /\ model' = ld.model
         /\ tokenizer' = ld.tokenizer
         /\ shard' = ld.shard
         /\ Return(t, req[t].op, req[t].shard, {"ensure_shard"} \cup ld.calls,
                   req[t].inference_state, req[t].fresh, req[t].ntoks, h,
                   IF ld.error # "" THEN Raise(ld.error)
                   ELSE Body(req[t].op, req[t].inference_state, req[t].ntoks, h,
                             ld.tokenizer.eos_token_id))
  /\ pc' = [pc EXCEPT ![t] = "idle"]
  /\ req' = [req EXCEPT ![t] = NoReq]
  /\ UNCHANGED <<acquisition, periphery>>

(***************************************************************************)
(* get_model_path and the tasks of download_async_with_progress.           *)
(***************************************************************************)
\* Mutant of Exists: the local path is never found.
ExistsNever(model_path) == FALSE

\* model_path.exists()
Exists(model_path) == model_path \in exists

\* Mutant of Gathered: only the download task is awaited.
GatheredTransferOnly == download_task.st = "done"

\* Mutant of Gathered: asyncio.gather(..., return_exceptions=True) returns once
\* both tasks have ended, whether they returned or raised.
GatheredSettled ==
  /\ download_task.st \in {"done", "raised"}
  /\ progress_task.st \in {"done", "raised"}

\* asyncio.gather(download_task, progress_task) has its results: both tasks
\* returned.
Gathered == download_task.st = "done" /\ progress_task.st = "done"

\* return result[0]
Result(result) == result[1]

\* What asyncio.gather raises: the first exception raised by one of its tasks
\* while it is awaited.
FirstException(e) == IF gpc = "gather" /\ failed = NoError THEN e ELSE failed

\* The get_model_path(arg) call ends, returning model_path or raising e; the
\* samples the monitor had taken by then are counted.
Ended(arg, kind, model_path, e, downloaded) ==
  /\ got' = [n |-> got.n + 1, arg |-> arg, kind |-> kind, path |-> model_path,
             error |-> IF kind = "raise" THEN Raised(e, arg) ELSE NoError,
             cause |-> e, requests |-> requests', downloaded |-> downloaded,
             samples |-> Len(sampled)]
  /\ gpc' = "idle"

\* get_model_path(path_or_hf_repo, on_download_progress=on_progress): an existing
\* path is returned at once; otherwise download_async_with_progress asks the hub
\* for the repository's files (get_repo_size) and suspends; it has no
\* total_size and no tasks yet.  A call is made when the tasks of the previous
\* one have ended.
GetModelPath(model_path, on_progress) ==
  /\ gpc = "idle"
  /\ got.n < MaxCalls
  /\ download_task.st \notin {"created", "running"}
  /\ progress_task.st \notin {"created", "sleeping"}
  /\ IF Exists(model_path) THEN
       /\ UNCHANGED <<call, requests, tasks>>
       /\ Ended(model_path, "return", model_path, NoError, FALSE)
     ELSE
       /\ call' = [arg |-> model_path, on_progress |-> on_progress]
       /\ total_size' = 0
       /\ download_task' = NoTask
       /\ progress_task' = NoTask
       /\ failed' = NoError
       /\ sampled' = <<>>
       /\ reported' = <<>>
       /\ requests' = requests + 1
       /\ gpc' = "get_repo_size"
       /\ got' = got
  /\ UNCHANGED <<exists, storage, repo, inference, periphery>>

\* get_repo_size returns: the two tasks are created and gathered.
RepoSizeReturn ==
  /\ gpc = "get_repo_size"
  /\ call.arg = PathOf(HubRepo)
  /\ total_size' = GetRepoSize(repo, NoPatterns)
  /\ download_task' = Created
  /\ progress_task' = Created
  /\ failed' = NoError
  /\ sampled' = <<>>
  /\ reported' = <<>>
  /\ gpc' = "gather"
  /\ UNCHANGED <<exists, storage, repo, requests, call, got, inference, periphery>>

\* get_repo_size raises e: so does download_async_with_progress.
RepoSizeRaise(e) ==
  /\ gpc = "get_repo_size"
  /\ UNCHANGED <<call, requests>>
  /\ Ended(call.arg, "raise", <<>>, e, FALSE)
  /\ UNCHANGED <<exists, storage, repo, tasks, inference, periphery>>

\* download_repo starts: snapshot_download runs in a thread.
TransferStart ==
  /\ download_task.st = "created"
  /\ download_task' = [download_task EXCEPT !.st = "running"]
  /\ requests' = requests + 1
  /\ UNCHANGED <<exists, storage, repo, gpc, call, total_size, progress_task, failed,
                 sampled, reported, got, inference, periphery>>

\* snapshot_download writes a byte of a listed file the storage folder lacks.
TransferWrite ==
  /\ download_task.st = "running"
  /\ storage < repo.listed
  /\ storage' = storage + 1
  /\ UNCHANGED <<exists, repo, requests, gpc, call, tasks, got, inference, periphery>>

\* snapshot_download returns the snapshot's path once every listed file is there.
TransferReturn ==
  /\ download_task.st = "running"
  /\ storage >= repo.listed
  /\ download_task' = [st |-> "done", result |-> SnapshotPath(call.arg[1]), error |-> NoError]
  /\ exists' = exists \cup {SnapshotPath(call.arg[1])}
  /\ UNCHANGED <<storage, repo, requests, gpc, call, total_size, progress_task, failed,
                 sampled, reported, got, inference, periphery>>

\* snapshot_download raises e.
TransferRaise(e) ==
  /\ download_task.st = "running"
  /\ download_task' = [st |-> "raised", result |-> <<>>, error |-> e]
  /\ failed' = FirstException(e)
  /\ UNCHANGED <<exists, storage, repo, requests, gpc, call, total_size, progress_task,
                 sampled, reported, got, inference, periphery>>

\* monitor_progress starts: it enters the loop and suspends in asyncio.sleep.
MonitorStart ==
  /\ progress_task.st = "created"
  /\ progress_task' = [progress_task EXCEPT !.st = "sleeping"]
  /\ UNCHANGED <<exists, storage, repo, requests, gpc, call, total_size, download_task,
                 failed, sampled, reported, got, inference, periphery>>

\* Mutant of MonitorSample: an expected total of 0 bytes counts as 100 percent.
MonitorSampleZeroComplete ==
  /\ progress_task.st = "sleeping"
  /\ Len(sampled) < MaxSamples
  /\ sampled' = Append(sampled, CurrentSize(storage))
  /\ reported' = OnProgress(call.on_progress, reported, CurrentSize(storage), total_size)
  /\ progress_task' = IF total_size = 0 \/ Complete(Progress(CurrentSize(storage), total_size))
                        THEN [st |-> "done", result |-> <<>>, error |-> NoError]
                        ELSE progress_task
  /\ UNCHANGED failed
  /\ UNCHANGED <<exists, storage, repo, requests, gpc, call, total_size, download_task,
                 got, inference, periphery>>

\* monitor_progress resumes from asyncio.sleep: it takes a sample, reports it,
\* and either leaves the loop or suspends in the next asyncio.sleep.
MonitorSample ==
  /\ progress_task.st = "sleeping"
  /\ Len(sampled) < MaxSamples
  /\ IF total_size = 0 THEN
       /\ progress_task' = [st |-> "raised", result |-> <<>>,
                            error |-> Error("ZeroDivisionError")]
       /\ failed' = FirstException(Error("ZeroDivisionError"))
       /\ UNCHANGED <<sampled, reported>>
     ELSE
       /\ sampled' = Append(sampled, CurrentSize(storage))
       /\ reported' = OnProgress(call.on_progress, reported, CurrentSize(storage), total_size)
       /\ progress_task' = IF Complete(Progress(CurrentSize(storage), total_size))
                             THEN [st |-> "done", result |-> <<>>, error |-> NoError]
                             ELSE progress_task
       /\ UNCHANGED failed
  /\ UNCHANGED <<exists, storage, repo, requests, gpc, call, total_size, download_task,
                 got, inference, periphery>>

\* asyncio.gather returns both results: get_model_path returns Path(result[0]).
GatherReturn ==
  /\ gpc = "gather"
  /\ Gathered
  /\ UNCHANGED <<call, requests>>
  /\ Ended(call.arg, "return", Result(<<download_task.result, progress_task.result>>),
           NoError, TRUE)
  /\ UNCHANGED <<exists, storage, repo, tasks, inference, periphery>>

\* Mutant of GatherRaise: the task that has not ended is cancelled.
GatherRaiseCancels ==
  /\ gpc = "gather"
  /\ failed # NoError
  /\ UNCHANGED <<call, requests>>
  /\ Ended(call.arg, "raise", <<>>, failed, TRUE)
  /\ progress_task' = IF progress_task.st \in {"created", "sleeping"}
                        THEN [st |-> "raised", result |-> <<>>,
                              error |-> Error("CancelledError")]
                        ELSE progress_task
  /\ UNCHANGED <<exists, storage, repo, total_size, download_task, failed, sampled,
                 reported, inference, periphery>>

\* asyncio.gather raises the first exception of its tasks; the other task is
\* left running.
GatherRaise ==
  /\ gpc = "gather"
  /\ failed # NoError
  /\ UNCHANGED <<call, requests>>
  /\ Ended(call.arg, "raise", <<>>, failed, TRUE)
  /\ UNCHANGED <<exists, storage, repo, tasks, inference, periphery>>

(***************************************************************************)
(* Specifications.                                                         *)
(***************************************************************************)
\* The engine's cache slot: one task calling ensure_shard and fresh-start
\* infer_prompt with every shard.
NextEngine ==
  \/ \E s \in Shards :
       \/ EnsureShard("t1", s)
       \/ \E h \in ForwardOutputs : InferPrompt("t1", s, None, 1, h)
  \/ DownloaderRaise("t1")
  \/ \E p \in DownloadPaths(req["t1"].shard), bm \in BOOLEAN, bt \in BOOLEAN,
        eos \in TokenIds, h \in ForwardOutputs :
       DownloaderReturn("t1", p, bm, bt, eos, h)

SpecEngine == Init /\ [][NextEngine]_vars

\* The blobs a caller supplies: absent, empty, every encoded state up to MaxInt,
\* objects lacking a field, an object with a negative counter (which no call
\* returns from a fresh start), and text json.loads rejects or that is no object.
InputBlobs ==
  {None, Str(<<>>)}
    \cup {Str(JsonDumps(sp, nc)) : sp \in 0..MaxInt, nc \in 0..MaxInt}
    \cup {Str(<<"{">> \o QuotedChars(KeyStartPos) \o <<":">> \o IntChars(MaxInt) \o <<"}">>),
          Str(<<"{", " ">> \o QuotedChars(KeyNCapturedToks) \o <<":", " ">>
                \o IntChars(MaxInt) \o <<" ", "}">>)}
    \cup {Str(JsonDumps(MaxInt, -1))}
    \cup {Str(<<"{">>), Str(<<"7">>),
          Str(<<"{">> \o QuotedChars(KeyStartPos) \o <<":", "}">>)}

\* The shard the continuation runs are made on.
InferShards == {s \in Shards : s.model_id = "llama-3-8b" /\ s.n_layers = 1}

\* The caller feeds the state it holds only while its integers are within MaxInt.
WithinMaxInt(r) ==
  /\ GetField(r, KeyStartPos).val <= MaxInt
  /\ GetField(r, KeyNCapturedToks).val <= MaxInt

Feedable(b) == WithinMaxInt(JsonLoads(OrEmptyObject(b)))

\* A new engine, and a caller whose first inference_state is any input blob.
InitInfer ==
  /\ shard = NoShard
  /\ model = NoModel
  /\ tokenizer = NoTokenizer
  /\ pc = [t \in Tasks |-> "idle"]
  /\ req = [t \in Tasks |-> NoReq]
  /\ held \in {Holding(b) : b \in InputBlobs}
  /\ last = NoLast
  /\ InitAcquisition([listed |-> MaxBytes, unlisted |-> 0])
  /\ InitPeriphery

\* The continuation codec: one task, one shard; every call is fed the blob the
\* caller holds, and the caller then holds the state the call returned.
NextInfer ==
  \/ /\ Feedable(held.blob)
     /\ \E s \in InferShards, h \in ForwardOutputs :
          \/ \E ntoks \in 0..MaxToks : InferPrompt("t1", s, held.blob, ntoks, h)
          \/ InferTensor("t1", s, held.blob, h)
  \/ DownloaderRaise("t1")
  \/ \E p \in {q \in DownloadPaths(req["t1"].shard) : IsDir(q)}, bm \in BOOLEAN,
        bt \in BOOLEAN, eos \in TokenIds, h \in ForwardOutputs :
       DownloaderReturn("t1", p, bm, bt, eos, h)

SpecInfer == InitInfer /\ [][NextInfer]_vars

\* The end-to-end scenario: from a fresh start, infer_prompt only, on a shard
\* that is the model's final stage (the forward pass yields a sampled token).
NextChain ==
  \/ /\ Feedable(held.blob)
     /\ \E s \in InferShards, ntoks \in 0..MaxToks, i \in TokenIds :
          InferPrompt("t1", s, held.blob, ntoks, [kind |-> "scalar", item |-> i])
  \/ DownloaderRaise("t1")
  \/ \E p \in DownloadPaths(req["t1"].shard), bm \in BOOLEAN, bt \in BOOLEAN,
        eos \in TokenIds, i \in TokenIds :
       DownloaderReturn("t1", p, bm, bt, eos, [kind |-> "scalar", item |-> i])

SpecChain == Init /\ [][NextChain]_vars

\* A new engine that no call is made on, and any hub repository.
InitAcquire ==
  /\ shard = NoShard
  /\ model = NoModel
  /\ tokenizer = NoTokenizer
  /\ pc = [t \in Tasks |-> "idle"]
  /\ req = [t \in Tasks |-> NoReq]
  /\ held = Holding(None)
  /\ last = NoLast
  /\ \E r \in RepoContents : InitAcquisition(r)
  /\ InitPeriphery

\* Acquisition: get_model_path calls in sequence, the download and the monitor
\* tasks interleaved in every order.
NextAcquire ==
  \/ \E model_path \in PathArgs, on_progress \in BOOLEAN : GetModelPath(model_path, on_progress)
  \/ RepoSizeReturn
  \/ \E e \in RepoSizeErrors(call.arg) : RepoSizeRaise(e)
  \/ TransferStart
  \/ TransferWrite
  \/ TransferReturn
  \/ \E e \in TransferErrors : TransferRaise(e)
  \/ MonitorStart
  \/ MonitorSample
  \/ GatherReturn
  \/ GatherRaise

SpecAcquire == InitAcquire /\ [][NextAcquire]_vars

\* Time passes.
Tick ==
  /\ now < MaxClock
  /\ now' = now + 1
  /\ UNCHANGED <<last_broadcast_time, events, broadcasts, inference, acquisition, bus, downloads, validator, database>>

\* throttled_broadcast(shard, event): the event is the n-th delivered.
ThrottledBroadcast(status) ==
  /\ Len(events) < MaxEvents
  /\ LET current_time == now
         n == Len(events) + 1
     IN  /\ events' = Append(events, [status |-> status, time |-> current_time])
         /\ IF Forwarded(status, current_time, last_broadcast_time) THEN
              /\ last_broadcast_time' = current_time
              /\ broadcasts' = Append(broadcasts, [n |-> n, status |-> status,
                                                   time |-> current_time])
            ELSE UNCHANGED <<last_broadcast_time, broadcasts>>
  /\ UNCHANGED <<now, inference, acquisition, bus, downloads, validator, database>>

\* The subscriber: any sequence of progress events at any times.
NextThrottle ==
  \/ Tick
  \/ \E status \in Statuses : ThrottledBroadcast(status)

SpecThrottle == Init /\ [][NextThrottle]_vars

\* on_progress.register(name).on_next(callback)
Register(name, callback) ==
  /\ Len(registrations) < MaxRegistered
  /\ subscribers' = Subscribe(subscribers, name, callback)
  /\ registrations' = Append(registrations, [name |-> name, callback |-> callback])
  /\ UNCHANGED <<emitted, delivered, downloads, inference, acquisition, throttle, validator, database>>

\* The bus emits an event: every subscriber's callback is invoked before the
\* emitting step goes on.
Emit(event) ==
  /\ Len(emitted) < MaxEmitted
  /\ emitted' = Append(emitted, [event |-> event, registrations |-> Len(registrations)])
  /\ delivered' = delivered \o Deliveries(subscribers, Len(emitted) + 1, event)
  /\ UNCHANGED <<subscribers, registrations>>

\* ensure_shard(s, e) is called: the first attempt creates the Download Status;
\* a completed download is detected and the call returns at once.
DownloaderEnsureShard(s, e) ==
  /\ download_status[e][s].status \in {"absent", "error", "complete"}
  /\ attempts[e][s] < MaxCalls
  /\ attempts' = [attempts EXCEPT ![e][s] = @ + 1]
  /\ download_status' =
       [download_status EXCEPT ![e][s] =
          IF @.status = "absent" THEN NotStarted(s)
          ELSE IF @.status = "error" THEN [@ EXCEPT !.status = "not_started"]
          ELSE @]
  /\ UNCHANGED <<succeeded, bus, inference, acquisition, throttle, validator, database>>

\* A sample of the transfer monitor: d bytes are present.
DownloaderSample(s, e, d) ==
  /\ download_status[e][s].status \in {"not_started", "in_progress"}
  /\ d >= download_status[e][s].downloaded_bytes
  /\ download_status' =
       [download_status EXCEPT ![e][s] = [@ EXCEPT !.downloaded_bytes = d,
                                                   !.status = "in_progress"]]
  /\ Emit([shard |-> s, engine_name |-> e, downloaded_bytes |-> d,
           total_bytes |-> TotalBytes(s), status |-> "in_progress"])
  /\ UNCHANGED <<attempts, succeeded, inference, acquisition, throttle, validator, database>>

\* The transfer and the monitor are done: ensure_shard returns the path.
DownloaderComplete(s, e) ==
  /\ download_status[e][s].status = "in_progress"
  /\ download_status[e][s].downloaded_bytes = TotalBytes(s)
  /\ download_status' = [download_status EXCEPT ![e][s] = Completed(@)]
  /\ succeeded' = succeeded \cup {<<e, s>>}
  /\ Emit([shard |-> s, engine_name |-> e, downloaded_bytes |-> TotalBytes(s),
           total_bytes |-> TotalBytes(s), status |-> "complete"])
  /\ UNCHANGED <<attempts, inference, acquisition, throttle, validator, database>>

\* The acquisition fails: ensure_shard raises.
DownloaderFail(s, e) ==
  /\ download_status[e][s].status \in {"not_started", "in_progress"}
  /\ download_status' = [download_status EXCEPT ![e][s] = [@ EXCEPT !.status = "error"]]
  /\ Emit([shard |-> s, engine_name |-> e,
           downloaded_bytes |-> download_status[e][s].downloaded_bytes,
           total_bytes |-> TotalBytes(s), status |-> "error"])
  /\ UNCHANGED <<attempts, succeeded, inference, acquisition, throttle, validator, database>>

\* The progress event bus: subscribers register at any time while the shard of
\* test_new_shard_download is acquired.
NextBus ==
  \/ \E name \in SubscriberNames, callback \in Callbacks : Register(name, callback)
  \/ \E s \in DownloadShards, e \in {"MLXDynamicShardInferenceEngine"} :
       \/ DownloaderEnsureShard(s, e)
       \/ \E d \in 0..TotalBytes(s) : DownloaderSample(s, e, d)
       \/ DownloaderComplete(s, e)
       \/ DownloaderFail(s, e)

SpecBus == Init /\ [][NextBus]_vars

\* The download status: the shard is acquired under every engine name.
NextStatus ==
  \E s \in DownloadShards, e \in EngineNames :
    \/ DownloaderEnsureShard(s, e)
    \/ \E d \in 0..TotalBytes(s) : DownloaderSample(s, e, d)
    \/ DownloaderComplete(s, e)
    \/ DownloaderFail(s, e)

SpecStatus == Init /\ [][NextStatus]_vars

\* The shards two concurrent callers ask one engine for.
RaceShards ==
  {s \in Shards : s.model_id = "llama-3-8b" /\ s.n_layers = 2 /\ s.start_layer = s.end_layer}

\* Two tasks calling ensure_shard and fresh-start infer_prompt on one engine, their
\* calls overlapping in every way the event loop allows.
NextRace ==
  \/ \E t \in Tasks, s \in RaceShards :
       \/ EnsureShard(t, s)
       \/ \E h \in ForwardOutputs : InferPrompt(t, s, None, 1, h)
  \/ \E t \in Tasks : DownloaderRaise(t)
  \/ \E t \in Tasks :
       \E p \in DownloadPaths(req[t].shard), bm \in BOOLEAN, bt \in BOOLEAN,
          eos \in TokenIds, h \in ForwardOutputs :
         DownloaderReturn(t, p, bm, bt, eos, h)

SpecRace == Init /\ [][NextRace]_vars

\* validate_query(q), called once
Validate(q) ==
  /\ validation = NoValidation
  /\ query' = q
  /\ validation' = ValidateQuery(q)
  /\ UNCHANGED <<inference, acquisition, throttle, bus, downloads, database>>

\* The validator applied to any one query.
NextValidate == \E q \in Queries : Validate(q)

SpecValidate == Init /\ [][NextValidate]_vars

\* execute_query(q): the whole call; it does not suspend (the lock is free,
\* pymysql blocks).  connected: pymysql.connect succeeds; outcome: cursor.execute
\* returns ("ok"), raises with the connection still open ("raise") or with the
\* connection closed ("lost").
ExecuteQuery(q, connected, outcome) ==
  /\ executed < MaxExecuted
  /\ executed' = executed + 1
  /\ IF Rejected(ValidateQuery(q)) THEN
       LET r == QueryResult(q, FALSE, <<"Query validation failed", ValidateQuery(q).error>>)
       IN  /\ query_result' = r
           /\ query_history' = LogQuery(query_history, q, r)
           /\ UNCHANGED <<pool, pool_size, opened, created, acquired, sent>>
     ELSE
       LET g == GetConnection(pool, pool_size, max_size, created, connected)
           raised == IF g.conn = NoConn THEN g.error
                     ELSE IF g.conn \notin opened \/ outcome = "lost" THEN <<"OperationalError">>
                     ELSE IF outcome = "raise" THEN <<"ProgrammingError">>
                     ELSE <<>>
           is_open == g.conn # NoConn /\ (g.conn \in opened \/ g.created > created)
                        /\ outcome # "lost"
           back == IF g.conn = NoConn THEN [pool |-> g.pool, pool_size |-> g.pool_size]
                   ELSE ReturnConnection(g.pool, g.pool_size, g.conn, is_open)
           r == QueryResult(q, raised = <<>>, raised)
       IN  /\ acquired' = acquired + 1
           /\ created' = g.created
           /\ sent' = IF g.conn = NoConn THEN sent ELSE Append(sent, q)
           /\ opened' = IF g.conn = NoConn THEN opened
                        ELSE IF is_open THEN opened \cup {g.conn} ELSE opened \ {g.conn}
           /\ pool' = back.pool
           /\ pool_size' = back.pool_size
           /\ query_result' = r
           /\ query_history' = LogQuery(query_history, q, r)
  /\ UNCHANGED <<max_size, inference, acquisition, throttle, bus, downloads, validator>>

\* The server closes an idle connection.
ConnectionLost(c) ==
  /\ c \in opened
  /\ opened' = opened \ {c}
  /\ UNCHANGED <<pool, pool_size, max_size, created, acquired, sent, query_history,
                 query_result, executed>>
  /\ UNCHANGED <<inference, acquisition, throttle, bus, downloads, validator>>

\* The database tools: execute_query calls in sequence.
NextDatabase ==
  \/ \E q \in ExecutedQueries, connected \in BOOLEAN, outcome \in {"ok", "raise", "lost"} :
       ExecuteQuery(q, connected, outcome)
  \/ \E c \in opened : ConnectionLost(c)

SpecDatabase == Init /\ [][NextDatabase]_vars

\* The database tools under any configured max_connections.
InitPool ==
  /\ shard = NoShard
  /\ model = NoModel
  /\ tokenizer = NoTokenizer
  /\ pc = [t \in Tasks |-> "idle"]
  /\ req = [t \in Tasks |-> NoReq]
  /\ held = Holding(None)
  /\ last = NoLast
  /\ InitAcquisition([listed |-> MaxBytes, unlisted |-> 0])
  /\ InitThrottle /\ InitBus /\ InitValidator
  /\ \E m \in 0..MaxConnections : InitDatabaseOf(m)

SpecPool == InitPool /\ [][NextDatabase]_vars

(***************************************************************************)
(* Properties.                                                             *)
(***************************************************************************)
\* The resident shards: whose weights the model holds, and which shard the
\* engine says is loaded.
ResidentShards == {model.shard, shard} \ {NoShard}

LoadCalls == {"ensure_shard", "build_transformer", "from_pretrained"}

LoadErrors == {"ensure_shard", "build_transformer", "from_pretrained"}

\* The latest step returned an inference call's result.
Inferred(op, kind) == last.op = op /\ last.ret.error = "" /\ last.h.kind = kind

\* What the next call decodes from the continuation state the latest call returned.
OutStartPos == StateField(last.ret.state, KeyStartPos)

OutNCapturedToks == StateField(last.ret.state, KeyNCapturedToks)

\* C1: ensure_shard(requested) on an engine that is Loaded(requested) never
\* calls the shard downloader (no task suspends in it), and the call, which
\* returns in the same step, leaves shard, model and tokenizer as they were and
\* calls neither build_transformer nor from_pretrained.
C1_NoOpWhenLoaded ==
  [][/\ \A t \in Tasks :
          (pc[t] = "idle" /\ pc'[t] = "downloading") => ~ShardEq(shard, req'[t].shard)
     /\ (pc' = pc /\ last' # NoLast /\ ShardEq(shard, last'.shard))
          => (UNCHANGED engine /\ last'.calls = {})]_vars

C1_Witness ==
  /\ last.op = "ensure_shard"
  /\ last.calls = {}
  /\ last.ret.error = ""
  /\ ShardEq(shard, last.shard)
  /\ held.blob # None

\* C2: a call with a shard that differs from the resident one in any field (or
\* on an Unloaded engine) does not return without the downloader; when its
\* ensure_shard succeeds, the model is built for the requested shard from a
\* path the downloader returns for it, the tokenizer from that path's
\* directory, the engine is Loaded(requested), and exactly one shard is
\* resident: nothing of the previous one is left.
C2_LoadReplaces ==
  [][/\ (pc' = pc /\ last' # NoLast) => ShardEq(shard, last'.shard)
     /\ \A t \in Tasks :
          (pc[t] = "downloading" /\ pc'[t] = "idle" /\ last'.ret.error \notin LoadErrors)
            => /\ last'.calls = LoadCalls
               /\ shard' = req[t].shard
               /\ \E p \in DownloadPaths(req[t].shard) :
                    /\ model' = BuildTransformer(p, req[t].shard, ModelSize(req[t].shard))
                    /\ tokenizer'.path = (IF IsDir(p) THEN p ELSE Parent(p))
               /\ ResidentShards' = {req[t].shard}]_vars

\* An ensure_shard that loaded its shard on an engine which had served an
\* inference call before, so that a resident shard was replaced.
C2_Witness ==
  /\ last.op = "ensure_shard"
  /\ last.calls = LoadCalls
  /\ last.ret.error = ""
  /\ shard = last.shard
  /\ held.blob # None
  /\ ~IsDir(model.path)

\* C3: the blob a call returns decodes to exactly the two integers that were
\* handed to json.dumps.
C3_RoundTrip ==
  (last.op \in {"infer_prompt", "infer_tensor"} /\ last.ret.error = "")
    => /\ OutStartPos = [ok |-> TRUE, val |-> last.ret.encoded.start_pos]
       /\ OutNCapturedToks = [ok |-> TRUE, val |-> last.ret.encoded.n_captured_toks]

C3_Witness ==
  /\ Inferred("infer_prompt", "hidden")
  /\ last.ret.encoded.start_pos >= 10
  /\ last.ret.encoded.n_captured_toks >= 10

\* C4: an inference call given None or the empty string as inference_state gets
\* past decoding, with start_pos = 0 and n_captured_toks = 0.
C4_FreshStart ==
  (/\ last.op \in {"infer_prompt", "infer_tensor"}
   /\ last.inference_state \in {None, Str(<<>>)}
   /\ last.ret.error \notin LoadErrors)
    => /\ last.ret.error # "json"
       /\ last.ret.decoded = [start_pos |-> 0, n_captured_toks |-> 0]

C4_Witness ==
  /\ last.op = "infer_tensor"
  /\ last.inference_state = Str(<<>>)
  /\ last.ret.error = ""
  /\ last.calls = {}

\* C5: infer_prompt, final stage: the returned state decodes to start_pos =
\* decoded start_pos + number of input tokens and n_captured_toks = 1.
C5_PromptFinal ==
  Inferred("infer_prompt", "scalar")
    => /\ OutStartPos = [ok |-> TRUE, val |-> last.ret.decoded.start_pos + last.ntoks]
       /\ OutNCapturedToks = [ok |-> TRUE, val |-> 1]

C5_Witness ==
  /\ Inferred("infer_prompt", "scalar")
  /\ last.ntoks > 0
  /\ last.ret.decoded.start_pos > 0
  /\ last.ret.decoded.n_captured_toks > 1

\* C6: infer_prompt, intermediate stage: the returned state decodes to the
\* decoded start_pos and to n_captured_toks = decoded n_captured_toks + number
\* of input tokens + 1, and is_terminal is false.
C6_PromptIntermediate ==
  Inferred("infer_prompt", "hidden")
    => /\ OutStartPos = [ok |-> TRUE, val |-> last.ret.decoded.start_pos]
       /\ OutNCapturedToks =
            [ok |-> TRUE, val |-> last.ret.decoded.n_captured_toks + last.ntoks + 1]
       /\ ~last.ret.is_terminal

C6_Witness ==
  /\ Inferred("infer_prompt", "hidden")
  /\ last.ntoks > 1
  /\ last.ret.decoded.start_pos > 0
  /\ last.ret.decoded.n_captured_toks > 0

\* C7: infer_tensor, final stage: the returned state decodes to start_pos =
\* decoded start_pos + decoded n_captured_toks and n_captured_toks = 1.
C7_TensorFinal ==
  Inferred("infer_tensor", "scalar")
    => /\ OutStartPos =
            [ok |-> TRUE,
             val |-> last.ret.decoded.start_pos + last.ret.decoded.n_captured_toks]
       /\ OutNCapturedToks = [ok |-> TRUE, val |-> 1]

C7_Witness ==
  /\ Inferred("infer_tensor", "scalar")
  /\ last.ret.decoded.start_pos > 0
  /\ last.ret.decoded.n_captured_toks > 1

\* C8: on the final-stage branch of infer_prompt and infer_tensor is_terminal
\* is true exactly when the sampled token id equals the resident tokenizer's
\* eos_token_id; on the intermediate-stage branch it is false.
C8_TerminalDetection ==
  (last.op \in {"infer_prompt", "infer_tensor"} /\ last.ret.error = "")
    => /\ last.h.kind = "scalar"
            => (last.ret.is_terminal <=> last.h.item = tokenizer.eos_token_id)
       /\ last.h.kind = "hidden" => ~last.ret.is_terminal

C8_Witness ==
  /\ Inferred("infer_tensor", "scalar")
  /\ last.ret.is_terminal
  /\ last.calls = {}

\* C9: in a chain of inference calls that starts from the fresh state and
\* feeds each call the state the previous one returned, a call never returns a
\* start_pos smaller than the one it decoded.
C9_StartPosMonotone ==
  (last.op \in {"infer_prompt", "infer_tensor"} /\ last.ret.error = "" /\ last.fresh)
    => /\ OutStartPos.ok
       /\ OutStartPos.val >= last.ret.decoded.start_pos

C9_Witness ==
  /\ Inferred("infer_tensor", "scalar")
  /\ last.fresh
  /\ last.ret.decoded.start_pos > 0
  /\ OutStartPos.val > last.ret.decoded.start_pos

\* Two final-stage infer_prompt calls in sequence, the second fed the state the
\* first returned.
TwoPromptCalls ==
  /\ Inferred("infer_prompt", "scalar")
  /\ last'.op = "infer_prompt"
  /\ last'.ret.error = ""
  /\ last'.h.kind = "scalar"
  /\ last'.inference_state = last.ret.state

\* C10 as stated: call 2's output start_pos equals call 1's start_pos plus call
\* 1's input token count.
C10_AsStated ==
  [][TwoPromptCalls
       => StateField(last'.ret.state, KeyStartPos)
            = [ok |-> TRUE, val |-> last.ret.decoded.start_pos + last.ntoks]]_vars

\* C10, amended: the start_pos call 2 decodes equals call 1's start_pos plus
\* call 1's input token count, and call 2's output start_pos is that plus call
\* 2's own input token count.
C10_Continuation ==
  [][TwoPromptCalls
       => /\ last'.ret.decoded.start_pos = last.ret.decoded.start_pos + last.ntoks
          /\ StateField(last'.ret.state, KeyStartPos)
               = [ok |-> TRUE,
                  val |-> (last.ret.decoded.start_pos + last.ntoks) + last'.ntoks]]_vars

\* A final-stage infer_prompt fed a state that earlier calls of the chain
\* advanced.
C10_Witness ==
  /\ Inferred("infer_prompt", "scalar")
  /\ last.fresh
  /\ last.calls = {}
  /\ last.ntoks > 0
  /\ last.ret.decoded.start_pos > last.ntoks

\* The blob is not a flat key-value object json.loads can parse.
Malformed(b) == JsonLoads(OrEmptyObject(b)).kind # "dict"

\* C11: an inference call given a malformed continuation state does not fail on
\* it: it gets past decoding with start_pos = 0 and n_captured_toks = 0.
C11_MalformedIsFresh ==
  (/\ last.op \in {"infer_prompt", "infer_tensor"}
   /\ Malformed(last.inference_state)
   /\ last.ret.error \notin LoadErrors)
    => /\ last.ret.error # "json"
       /\ last.ret.decoded = [start_pos |-> 0, n_captured_toks |-> 0]

\* The next call for the loaded shard can use the slot: the resident model is
\* that shard's, and the resident tokenizer comes from the model's directory.
SlotUsable ==
  shard # NoShard
    => /\ model.shard = shard
       /\ tokenizer.path = (IF IsDir(model.path) THEN model.path ELSE Parent(model.path))

\* C12: an inference call that fails aborts only that call: when it fails in
\* ensure_shard (acquisition, model or tokenizer construction) the loaded shard
\* is the one loaded before the call, and after any failure the next call for
\* the loaded shard can use the slot.
C12_FailureLeavesSlot ==
  [][(/\ last' # NoLast
      /\ last'.op \in {"infer_prompt", "infer_tensor"}
      /\ last'.ret.error # "")
       => /\ last'.ret.error \in LoadErrors => shard' = shard
          /\ SlotUsable']_vars

\* C13: a get_model_path call that needs a download creates the download task
\* and the monitor task together, returns only when both have returned, and
\* returns the download task's result, the snapshot's path.
C13_ReturnsAfterBoth ==
  [][/\ (gpc = "get_repo_size" /\ gpc' = "gather")
          => (download_task'.st = "created" /\ progress_task'.st = "created")
     /\ (gpc = "gather" /\ gpc' = "idle" /\ got'.kind = "return")
          => /\ download_task.st = "done"
             /\ progress_task.st = "done"
             /\ got'.path = download_task.result
             /\ got'.path = SnapshotPath(HubRepo)]_vars

\* A download returned its path after the monitor sampled the folder before,
\* while and after the transfer wrote to it.
C13_Witness ==
  /\ got.kind = "return"
  /\ got.downloaded
  /\ Len(sampled) = 3
  /\ sampled[1] < sampled[2]
  /\ sampled[2] < sampled[3]

\* C14: when the download task or the monitor task has raised, the call that
\* gathers them does not return a path: it raises.
C14_EitherFailureFails ==
  [][(/\ gpc = "gather"
      /\ gpc' = "idle"
      /\ (download_task.st = "raised" \/ progress_task.st = "raised"))
       => (got'.kind = "raise" /\ got'.path = <<>>)]_vars

\* The transfer returned its path, the monitor raised, and the call raised.
C14_Witness ==
  /\ got.kind = "raise"
  /\ got.downloaded
  /\ download_task.st = "done"
  /\ progress_task.st = "raised"

\* C15: get_model_path called with a path that exists returns that path in the
\* same step: it makes no network request and creates no task; only a path
\* that does not exist leads to the repository size query.
C15_LocalPathNoNetwork ==
  [][(gpc = "idle" /\ (gpc' # "idle" \/ got'.n # got.n))
       => IF gpc' = "idle" /\ got'.arg \in exists
            THEN /\ got'.kind = "return"
                 /\ got'.path = got'.arg
                 /\ requests' = requests
                 /\ UNCHANGED tasks
            ELSE /\ gpc' = "get_repo_size"
                 /\ call'.arg \notin exists]_vars

\* The snapshot directory a download produced is passed to a later call, which
\* returns it at once.
C15_Witness ==
  /\ got.kind = "return"
  /\ ~got.downloaded
  /\ got.arg = SnapshotPath(HubRepo)
  /\ got.requests > 0

\* C16: when a get_model_path call downloaded the repository and returned, the
\* next call with the same argument makes no network request and returns the
\* same path.
C16_Idempotent ==
  [][(/\ gpc = "idle"
      /\ (gpc' # "idle" \/ got'.n # got.n)
      /\ got.kind = "return"
      /\ got.downloaded
      /\ (IF gpc' = "idle" THEN got'.arg ELSE call'.arg) = got.arg)
       => /\ requests' = requests
          /\ got'.n = got.n + 1
          /\ got'.kind = "return"
          /\ got'.path = got.path]_vars

\* C17: get_model_path raises ModelNotFoundError, with the message that names
\* the repository and the remedies, exactly when RepositoryNotFoundError was
\* raised inside it; any other exception reaches the caller as it was raised.
\* A call for a repository the hub does not have never returns a path.
C17_NotFoundDistinguished ==
  /\ got.kind = "raise"
       => /\ got.error.type = "ModelNotFoundError"
               <=> got.cause.type = "RepositoryNotFoundError"
          /\ got.error.type = "ModelNotFoundError"
               => got.error = ModelNotFoundError(got.arg)
          /\ got.error.type # "ModelNotFoundError" => got.error = got.cause
  /\ got.arg = PathOf(MissingRepo) => got.kind = "raise"

\* Both kinds of failure have been seen by callers: a repository the hub does
\* not have, then a transfer that failed with an I/O error.
C17_Witness ==
  /\ got.n = 2
  /\ got.kind = "raise"
  /\ got.error.type = "OSError"
  /\ got.requests = 3

\* C18: the monitor has left its loop exactly when its latest sample is at or
\* above total_size; every earlier sample is below it, so there is one such
\* sample and it is the last reported.
C18_MonitorTerminates ==
  /\ progress_task.st = "done"
       <=> (sampled # <<>> /\ sampled[Len(sampled)] >= total_size)
  /\ \A i \in 1..(Len(sampled) - 1) : sampled[i] < total_size
  /\ (progress_task.st = "done" /\ call.on_progress)
       => /\ reported[Len(reported)][1] >= total_size
          /\ \A i \in 1..(Len(reported) - 1) : reported[i][1] < total_size

\* The monitor stopped on its third sample, the first to reach total_size.
C18_Witness ==
  /\ progress_task.st = "done"
  /\ Len(sampled) = 3
  /\ call.on_progress
  /\ sampled[3] = total_size

\* C19: every sample is reported to the supplied callback as (current_size,
\* total_size), the completing one included and equal ones too; and a step
\* takes at most one sample, taken by a monitor that was suspended in its sleep.
C19_EverySampleReported ==
  [][/\ call'.on_progress
          => reported' = [i \in 1..Len(sampled') |-> <<sampled'[i], total_size'>>]
     /\ ~call'.on_progress => reported' = <<>>
     /\ Len(sampled') > Len(sampled)
          => /\ Len(sampled') = Len(sampled) + 1
             /\ progress_task.st = "sleeping"
             /\ progress_task'.st \in {"sleeping", "done"}]_vars

\* The callback received the same sample twice and then the completing one.
C19_Witness ==
  /\ progress_task.st = "done"
  /\ call.on_progress
  /\ Len(reported) = 3
  /\ reported[1] = reported[2]

\* C20: the samples of one download never decrease.
C20_SamplesMonotone ==
  \A i \in 1..Len(sampled) : \A j \in i..Len(sampled) : sampled[i] <= sampled[j]

\* Three samples of a growing folder.
C20_Witness ==
  /\ Len(sampled) = 3
  /\ sampled[1] < sampled[2]
  /\ sampled[2] < sampled[3]
  /\ progress_task.st = "sleeping"

\* C21: a transfer that has completed leaves the watched folder at or above
\* total_size, so that the monitor's next sample ends its loop and the gather
\* returns: the acquisition cannot be left waiting for bytes that never come.
C21_TransferReachesTotal ==
  (gpc = "gather" /\ download_task.st = "done") => CurrentSize(storage) >= total_size

\* C22: the total_size handed to the monitor is the summed size of the files
\* that match the allow_patterns the transfer is given, and no more bytes than
\* those are transferred.
C22_TotalIsAllowListed ==
  /\ progress_task.st # "none" => total_size = GetRepoSize(repo, ModelPatterns)
  /\ storage <= GetRepoSize(repo, ModelPatterns)

\* C24: every progress event with status "complete" that throttled_broadcast is
\* called with is forwarded to the broadcast in that very call, whatever the
\* time since the last forwarded event: no complete event is ever dropped.
C24_CompleteForwarded ==
  \A n \in DOMAIN events :
    events[n].status = "complete" =>
      \E j \in DOMAIN broadcasts :
        broadcasts[j] = [n |-> n, status |-> "complete", time |-> events[n].time]

\* A complete event was forwarded within the window of the broadcast before it.
C24_Witness ==
  \E j \in DOMAIN broadcasts :
    /\ j > 1
    /\ broadcasts[j].status = "complete"
    /\ broadcasts[j].time - broadcasts[j - 1].time < ThrottleTicks

\* C25: an event whose status is not "complete" is forwarded only when at
\* least 0.1 s have passed since the last forwarded event (since time 0 for the
\* first), and an event that is dropped leaves last_broadcast_time alone: it is
\* always the time of the latest forwarded event.
C25_OnePerWindow ==
  /\ \A j \in DOMAIN broadcasts :
       broadcasts[j].status # "complete" =>
         broadcasts[j].time - (IF j = 1 THEN 0 ELSE broadcasts[j - 1].time) >= ThrottleTicks
  /\ last_broadcast_time =
       IF broadcasts = <<>> THEN 0 ELSE broadcasts[Len(broadcasts)].time

\* An event was dropped inside the window of a forwarded one, and a later event
\* was forwarded once the window had passed.
C25_Witness ==
  \E j \in DOMAIN broadcasts :
    /\ j > 1
    /\ broadcasts[j].status # "complete"
    /\ broadcasts[j].n > broadcasts[j - 1].n + 1
    /\ events[broadcasts[j].n - 1].time > broadcasts[j - 1].time
    /\ broadcasts[j].time - broadcasts[j - 1].time = ThrottleTicks

\* The names registered by the first n register calls, in the order of their
\* first registration.
RECURSIVE RegisteredNames(_)
RegisteredNames(n) ==
  IF n = 0 THEN <<>>
  ELSE IF \E i \in 1..n - 1 : registrations[i].name = registrations[n].name
    THEN RegisteredNames(n - 1)
    ELSE Append(RegisteredNames(n - 1), registrations[n].name)

\* The callback of the latest of the first n register calls made under `name`.
LatestCallback(n, name) ==
  LET i == CHOOSE j \in 1..n :
             /\ registrations[j].name = name
             /\ \A l \in j + 1..n : registrations[l].name # name
  IN  registrations[i].callback

\* The callback invocations the k-th emission owes: one per name registered
\* when it was emitted, in registration order, each to the name's latest callback.
Owed(k) ==
  LET n == emitted[k].registrations
  IN  [i \in DOMAIN RegisteredNames(n) |->
         [k |-> k, callback |-> LatestCallback(n, RegisteredNames(n)[i]),
          event |-> emitted[k].event]]

\* The invocations owed by the first k emissions, one emission after the other.
RECURSIVE OwedUpTo(_)
OwedUpTo(k) == IF k = 0 THEN <<>> ELSE OwedUpTo(k - 1) \o Owed(k)

\* C26: every event the bus emits (progress samples, complete, error) has been
\* delivered, by the end of the emitting step, to exactly the subscribers
\* registered when it was emitted, in registration order; a callback replaced by
\* a later registration under its name receives none of the later events.
C26_DeliveredToAllInOrder == delivered = OwedUpTo(Len(emitted))

\* An event was delivered to two subscribers, one of them under a name that had
\* been registered with a different callback before.
C26_Witness ==
  \E k \in DOMAIN emitted :
    /\ Len(Owed(k)) = 2
    /\ \E i \in 1..emitted[k].registrations :
         /\ registrations[i].callback # LatestCallback(emitted[k].registrations, registrations[i].name)
         /\ registrations[i].name = RegisteredNames(emitted[k].registrations)[1]

\* get_shard_download_status(engine_name): the (shard, status) entries.
GetShardDownloadStatus(e) ==
  {<<s, download_status[e][s]>> : s \in {t \in DownloadShards : download_status[e][t].status # "absent"}}

\* The latest event emitted for shard s under engine name e, if any.
LatestEvent(s, e) ==
  LET ks == {k \in DOMAIN emitted : emitted[k].event.shard = s /\ emitted[k].event.engine_name = e}
  IN  IF ks = {} THEN <<>> ELSE <<emitted[CHOOSE k \in ks : \A l \in ks : l <= k].event>>

RanOnForeignModel ==
  /\ last.op \in {"infer_prompt", "infer_tensor"}
  /\ last.h.kind \in {"scalar", "hidden"}
  /\ model.shard # last.shard

\* C28, as stated: a call whose ensure_shard has loaded its shard is still to
\* run its forward pass when the event loop next schedules another task, so
\* that another call can replace the model in between.
C28_AsStated ==
  [][\A t \in Tasks :
       (/\ pc[t] = "downloading"
        /\ req[t].op # "ensure_shard"
        /\ shard' = req[t].shard
        /\ last'.task = t
        /\ last'.ret.error \notin LoadErrors) => pc'[t] # "idle"]_vars

\* C28, amended: a call that loads its shard runs its forward pass and its
\* end-of-sequence comparison in the step of the load, on the model and the
\* tokenizer built for the shard it asked for, whatever the other task has in
\* flight; a call that finds its shard loaded runs on the resident model in one
\* step, which is a foreign model only if the slot was inconsistent already.
C28_LoadAndUseInOneStep ==
  [][\A t \in Tasks :
       /\ (/\ pc[t] = "downloading"
           /\ pc'[t] = "idle"
           /\ last'.task = t
           /\ last'.ret.error \notin LoadErrors) =>
            /\ shard' = req[t].shard
            /\ model'.shard = req[t].shard
            /\ \E p \in DownloadPaths(req[t].shard) :
                 tokenizer'.path = (IF IsDir(p) THEN p ELSE Parent(p))
            /\ ~RanOnForeignModel'
       /\ (/\ pc[t] = "idle"
           /\ pc'[t] = "idle"
           /\ last'.task = t) =>
            /\ shard = last'.shard
            /\ UNCHANGED engine
            /\ RanOnForeignModel' => model.shard # shard]_vars

\* A task's infer call loaded its shard and ran its forward pass on it while the
\* other task's infer call for a different shard was in flight.
C28_Witness ==
  \E t \in Tasks, u \in Tasks :
    /\ t # u
    /\ last.task = t
    /\ last.op = "infer_prompt"
    /\ last.h.kind = "scalar"
    /\ "build_transformer" \in last.calls
    /\ model.shard = last.shard
    /\ pc[u] = "downloading"
    /\ req[u].op = "infer_prompt"
    /\ req[u].shard # last.shard

\* The query, stripped and upper-cased, starts with an allowed statement.
StartsWithAllowed(q) == \E stmt \in ALLOWED_STATEMENTS : StartsWith(UpperAll(Strip(q)), stmt)

\* The query holds an SQL comment: `--`, or `/*` with a `*/` after it, on one
\* line or over several.
ContainsComment(q) ==
  \E i \in DOMAIN q :
    \/ q[i] = "--"
    \/ q[i] = "/*" /\ \E j \in DOMAIN q : j > i /\ q[j] = "*/"

\* The query holds one of the dangerous patterns, in either case.
ContainsDangerous(q) ==
  \/ \E n \in DOMAIN DANGEROUS_PATTERNS : Search(DANGEROUS_PATTERNS[n], UpperAll(Strip(q)))
  \/ ContainsComment(q)

\* C29: validate_query accepts a query only if it is non-empty, at most 10000
\* characters long, starts (stripped and upper-cased) with an allowed statement
\* and holds no dangerous pattern; a query that holds a dangerous pattern, SQL
\* comments among them, is rejected even when it starts with an allowed statement.
C29_AcceptsOnlySafe ==
  validation # NoValidation =>
    /\ validation.is_valid =>
         /\ Strip(query) # <<>>
         /\ QueryLen(query) <= MaxQueryChars
         /\ StartsWithAllowed(query)
         /\ ~ContainsDangerous(query)
    /\ (StartsWithAllowed(query) /\ ContainsDangerous(query)) => ~validation.is_valid

\* validate_query accepts exactly the non-empty queries of at most 10000
\* characters that start with an allowed statement and in which re.search finds
\* none of DANGEROUS_PATTERNS.
ValidateQueryAsSearched ==
  validation # NoValidation =>
    (validation.is_valid <=>
       /\ Strip(query) # <<>>
       /\ QueryLen(query) <= MaxQueryChars
       /\ StartsWithAllowed(query)
       /\ ~\E n \in DOMAIN DANGEROUS_PATTERNS :
             Search(DANGEROUS_PATTERNS[n], UpperAll(Strip(query))))

\* C30: an execute_query call whose query validate_query rejects acquires no
\* connection and sends nothing to the database (the pool is left as it was); it
\* returns a QueryResult with success = False that tells of the failed
\* validation, and appends exactly one entry, its own, to the query history.
C30_ValidationGate ==
  [][(executed' = executed + 1 /\ ~ValidateQuery(query_result'.query).is_valid) =>
       /\ acquired' = acquired
       /\ sent' = sent
       /\ UNCHANGED <<pool, pool_size, opened, created>>
       /\ query_result'.success = FALSE
       /\ query_result'.error # <<>>
       /\ query_result'.error[1] = "Query validation failed"
       /\ query_history' =
            LastEntries(Append(query_history,
                               [query_hash |-> HashQuery(query_result'.query),
                                query |-> LogEntry(query_result'.query, query_result').query,
                                success |-> FALSE,
                                error |-> query_result'.error]))]_vars

\* A query was rejected while a connection was idle in the pool, and the history
\* had been full before.
C30_Witness ==
  /\ query_result.error # <<>>
  /\ query_result.error[1] = "Query validation failed"
  /\ pool # <<>>
  /\ executed > MaxHistory
  /\ Len(query_history) = MaxHistory
  /\ query_history[Len(query_history)].query_hash = query_result.query_hash

\* The connections idle in the pool.
IdleConnections == {pool[i] : i \in 1..Len(pool)}

\* C31: between execute_query calls no connection is checked out: the pool
\* holds exactly pool_size connections, each of them once, and every open
\* connection is among them; so each connection a call acquired went to
\* return_connection once, whether the query succeeded or raised.
C31_NoConnectionLeak ==
  /\ Len(pool) = pool_size
  /\ \A i, j \in 1..Len(pool) : pool[i] = pool[j] => i = j
  /\ opened \subseteq IdleConnections

\* A query raised on an acquired connection, which is back in the pool, after
\* an earlier call lost its connection.
C31_Witness ==
  /\ query_result.error = <<"ProgrammingError">>
  /\ created = 2
  /\ pool = <<2>>
  /\ opened = {2}

\* An execute_query call that reached get_connection.
CalledGetConnection == executed' = executed + 1 /\ acquired' = acquired + 1

C33_SlotConsistent ==
  shard # NoShard
    => /\ model # NoModel
       /\ tokenizer # NoTokenizer
       /\ model.shard = shard
       /\ tokenizer.path = (IF IsDir(model.path) THEN model.path ELSE Parent(model.path))

\* C34: the engine does not share a load between overlapping calls: a call
\* that finds its shard not loaded calls the downloader, and when the
\* downloader has returned it builds the model and the tokenizer itself, also
\* when another call has loaded the same shard meanwhile; a call whose
\* constructions succeed leaves its shard loaded.
C34_NoDeduplication ==
  [][\A t \in Tasks :
       /\ (pc[t] = "idle" /\ pc'[t] = "idle" /\ last' # NoLast /\ last'.task = t)
            => (CacheHit(last'.shard) /\ last'.calls = {})
       /\ (pc[t] = "downloading" /\ pc'[t] = "idle" /\ last'.ret.error # "ensure_shard")
            => /\ last'.task = t
               /\ {"ensure_shard", "build_transformer"} \subseteq last'.calls
               /\ last'.ret.error # "build_transformer" => "from_pretrained" \in last'.calls
               /\ last'.ret.error \notin LoadErrors
                    => /\ shard' = req[t].shard
                       /\ model'.shard = req[t].shard
                       /\ tokenizer' # NoTokenizer]_vars

\* Task t1 has loaded a shard for which task t2, which asked for it before it
\* was resident, is still waiting for the downloader.
C34_Witness ==
  /\ last # NoLast
  /\ last.task = "t1"
  /\ last.ret.error = ""
  /\ last.calls = LoadCalls
  /\ shard = last.shard
  /\ model.shard = shard
  /\ pc["t2"] = "downloading"
  /\ req["t2"].shard = shard

\* C35: with an expected total of 0 bytes the monitor never reports and never
\* completes: its first sample raises ZeroDivisionError before the callback is
\* called, and the acquisition call raises, also when the transfer returned.
C35_ZeroTotalFails ==
  /\ []((progress_task.st # "none" /\ total_size = 0)
          => (reported = <<>> /\ progress_task.st # "done"))
  /\ [][(progress_task.st = "sleeping" /\ total_size = 0 /\ progress_task' # progress_task)
          => /\ progress_task'.st = "raised"
             /\ progress_task'.error = Error("ZeroDivisionError")
             /\ reported' = reported]_vars
  /\ [][(gpc = "gather" /\ gpc' = "idle" /\ total_size = 0) => got'.kind = "raise"]_vars

\* The transfer of an empty repository returned, the monitor, given a
\* callback, raised on its first sample, and the call raised its error.
C35_Witness ==
  /\ total_size = 0
  /\ call.on_progress
  /\ download_task.st = "done"
  /\ progress_task.st = "raised"
  /\ got.kind = "raise"
  /\ got.downloaded
  /\ got.cause = Error("ZeroDivisionError")

\* C36: when the transfer task has raised while the monitor is still in its
\* loop, the acquisition call raises the transfer's error and the monitor task
\* is left as it is; while the watched folder is below the expected total the
\* monitor stays in its loop after the call has failed, and each of its
\* samples is reported to the callback.
C36_MonitorOutlivesCall ==
  /\ [][(/\ gpc = "gather"
          /\ gpc' = "idle"
          /\ download_task.st = "raised"
          /\ progress_task.st \in {"created", "sleeping"})
           => /\ got'.kind = "raise"
              /\ got'.cause = download_task.error
              /\ progress_task' = progress_task]_vars
  /\ []((/\ gpc = "idle"
          /\ got.kind = "raise"
          /\ got.cause = download_task.error
          /\ download_task.st = "raised"
          /\ total_size > 0
          /\ CurrentSize(storage) < total_size)
           => progress_task.st \in {"created", "sleeping"})
  /\ [][(/\ gpc = "idle"
          /\ got.kind = "raise"
          /\ download_task.st = "raised"
          /\ progress_task.st = "sleeping"
          /\ sampled' # sampled)
           => /\ sampled' = Append(sampled, CurrentSize(storage))
              /\ reported' = IF call.on_progress
                                THEN Append(reported, <<CurrentSize(storage), total_size>>)
                                ELSE reported
              /\ CurrentSize(storage) < total_size => progress_task' = progress_task]_vars

\* The call raised the transfer's error after one sample; the monitor has
\* taken and reported two more since and is still in its loop.
C36_Witness ==
  /\ gpc = "idle"
  /\ got.kind = "raise"
  /\ got.cause = Error("OSError")
  /\ download_task.st = "raised"
  /\ progress_task.st = "sleeping"
  /\ call.on_progress
  /\ CurrentSize(storage) < total_size
  /\ got.samples = 1
  /\ Len(sampled) = 3
  /\ Len(reported) = 3

\* The field the call's inference_state holds under key, 0 when it has none.
InField(key) == [ok |-> TRUE, val |-> StateField(last.inference_state, key).val]

\* C37: infer_tensor, intermediate stage: the returned state decodes to the
\* start_pos and the n_captured_toks of the input state, a field the input
\* lacks being 0, and is_terminal is false; nothing is added to
\* n_captured_toks.
C37_TensorIntermediate ==
  Inferred("infer_tensor", "hidden")
    => /\ StateField(last.inference_state, KeyStartPos).ok
       /\ OutStartPos = InField(KeyStartPos)
       /\ OutNCapturedToks = InField(KeyNCapturedToks)
       /\ last.ret.decoded.start_pos = OutStartPos.val
       /\ last.ret.decoded.n_captured_toks = OutNCapturedToks.val
       /\ ~last.ret.is_terminal

\* An intermediate-stage infer_tensor was given a state that lacks
\* n_captured_toks.
C37_Witness ==
  /\ Inferred("infer_tensor", "hidden")
  /\ OutStartPos.val > 0
  /\ OutNCapturedToks.val = 0
  /\ last.inference_state # Str(JsonDumps(OutStartPos.val, 0))

\* C38: when the state a final stage returned (n_captured_toks = 1) is passed
\* through any number of intermediate-stage infer_tensor calls and then given
\* to a final-stage infer_tensor call, that call returns the start_pos the
\* earlier final stage returned plus 1, and n_captured_toks = 1 again.
C38_SteadyStateStep ==
  (/\ Inferred("infer_tensor", "scalar")
   /\ last.inference_state = last.held.blob
   /\ last.held.hops >= 0)
    => /\ last.ret.decoded.n_captured_toks = 1
       /\ OutStartPos = [ok |-> TRUE, val |-> last.held.base + 1]
       /\ OutNCapturedToks = [ok |-> TRUE, val |-> 1]

\* A final-stage infer_tensor was given a state that a final-stage infer_tensor
\* had returned and that MaxHops intermediate stages had handed on.
C38_Witness ==
  /\ Inferred("infer_tensor", "scalar")
  /\ last.inference_state = last.held.blob
  /\ last.held.hops = MaxHops
  /\ last.held.base > 1
  /\ OutStartPos.val = last.held.base + 1

\* C39: a prompt of k tokens on the fresh state: when an intermediate-stage
\* infer_prompt is followed by a final-stage infer_tensor given the state it
\* returned, the infer_tensor call returns start_pos = k + 1 and
\* n_captured_toks = 1; a single final-stage infer_prompt returns start_pos =
\* k and n_captured_toks = 1, one less in start_pos.
C39_PipelinedVersusSingle ==
  /\ (/\ Inferred("infer_tensor", "scalar")
      /\ last.inference_state = last.held.blob
      /\ last.held.prompted >= 0)
       => /\ OutStartPos = [ok |-> TRUE, val |-> last.held.prompted + 1]
          /\ OutNCapturedToks = [ok |-> TRUE, val |-> 1]
  /\ (/\ Inferred("infer_prompt", "scalar")
      /\ last.ret.decoded = [start_pos |-> 0, n_captured_toks |-> 0])
       => /\ OutStartPos = [ok |-> TRUE, val |-> last.ntoks]
          /\ OutNCapturedToks = [ok |-> TRUE, val |-> 1]

\* A final-stage infer_tensor was given the state an intermediate-stage
\* infer_prompt returned for a prompt of MaxToks tokens on the fresh state.
C39_Witness ==
  /\ Inferred("infer_tensor", "scalar")
  /\ last.inference_state = last.held.blob
  /\ last.held.prompted = MaxToks
  /\ last.ret.decoded = [start_pos |-> 0, n_captured_toks |-> MaxToks + 1]
  /\ OutStartPos.val = MaxToks + 1

\* The n-th event was forwarded to the broadcast.
WasForwarded(n) == \E j \in DOMAIN broadcasts : broadcasts[j].n = n

\* The time of the latest event forwarded before the n-th was delivered; 0
\* when there is none.
LastForwardedBefore(n) ==
  LET earlier == {j \in DOMAIN broadcasts : broadcasts[j].n < n}
  IN  IF earlier = {} THEN 0
      ELSE broadcasts[CHOOSE j \in earlier : \A i \in earlier : i <= j].time

\* C40: only "complete" passes the throttle: an event with status "error" is
\* forwarded exactly when an "in_progress" event would be, so one that comes
\* less than 0.1 s after the latest forwarded event is dropped; the latest
\* forwarded event is the one the window is counted from also when it was a
\* "complete" event forwarded inside the window before it.
C40_OnlyCompleteBypasses ==
  /\ \A n \in DOMAIN events :
       events[n].status # "complete"
         => (WasForwarded(n)
               <=> events[n].time - LastForwardedBefore(n) >= ThrottleTicks)
  /\ (broadcasts # <<>> /\ broadcasts[Len(broadcasts)].status = "complete")
       => last_broadcast_time = broadcasts[Len(broadcasts)].time

\* A complete event was forwarded inside the window of the broadcast before
\* it; an error event that came after that window had passed, but within 0.1 s
\* of the complete event, was dropped.
C40_Witness ==
  \E j \in DOMAIN broadcasts, n \in DOMAIN events :
    /\ j > 1
    /\ broadcasts[j].status = "complete"
    /\ broadcasts[j].time - broadcasts[j - 1].time < ThrottleTicks
    /\ n > broadcasts[j].n
    /\ events[n].status = "error"
    /\ events[n].time - broadcasts[j].time < ThrottleTicks
    /\ events[n].time - broadcasts[j - 1].time >= ThrottleTicks
    /\ ~WasForwarded(n)
====
